---- MODULE Spec2Model ----
(***************************************************************************)
(* Sweep orchestration of the Bluefors DC measurement package:             *)
(*   - the sweep engines (run_sweep / run_synchronized_sweep),             *)
(*   - the nested field / temperature orchestrators,                       *)
(*   - the constructors of the measurement classes,                        *)
(*   - the AMI430 field setpoint commands.                                 *)
(* Every instrument read or write is one step that either succeeds or      *)
(* raises a communication error; a raised write has no effect on the       *)
(* instrument.                                                             *)
(*                                                                         *)
(* Units: currents in 0.1 A, voltages in 100 V, fields in mT.              *)
(***************************************************************************)
EXTENDS Integers, Sequences, FiniteSets, TLC

VARIABLES
    call,       \* the API call under way: class, parameters, station
    phase,      \* position of the sweep engine
    ip,         \* index of the next instrument operation of the phase
    idx,        \* index of the sweep point being processed (1-based)
    avg,        \* accumulated readings of the current sweep point
    results,    \* recorded channels of the running sweep
    err,        \* exception in flight in the sweep engine
    output,     \* output-enable state of every source channel
    level,      \* setpoint of every source channel
    log,        \* every instrument operation issued so far, in order
    opc,        \* position of the nested-sweep orchestrator
    oidx,       \* index of the outer point being processed (1-based)
    oip,        \* index of the next instrument operation of the orchestrator
    polls,      \* polls done by the settling wait under way
    allData,    \* per-outer-point results of the orchestrator
    oerr,       \* exception in flight in the orchestrator
    magnet,     \* commanded state of the magnet controller
    tctl,       \* setpoints of the temperature controller
    points,     \* the setpoint sequence generated last
    waitResult, \* how the settling wait entered last has ended
    monitoring, \* RealTimeMonitoring.monitoring
    data_queue, \* RealTimeMonitoring.data_queue
    monitor_thread, \* RealTimeMonitoring.monitor_thread (0 is None)
    threads,    \* the worker threads started so far, each with its position
    mpc,        \* position of the caller inside start/stop/get_current_data
    mhist,      \* calls, writes, joins and returns of the monitor so far
    verdict     \* what the SafetyChecks call made last has returned

vars == <<call, phase, ip, idx, avg, results, err, output, level, log,
          opc, oidx, oip, polls, allData, oerr, magnet, tctl, points,
          waitResult, monitoring, data_queue, monitor_thread, threads, mpc,
          mhist, verdict>>

sweepVars == <<phase, ip, idx, avg, results, err>>
outerVars == <<opc, oidx, oip, polls, allData, oerr>>
outerInst == <<magnet, tctl>>
monVars == <<monitoring, data_queue, monitor_thread, threads, mpc, mhist>>
auxVars == <<points, waitResult, monVars, verdict>>

(***************************************************************************)
(* Bounds                                                                  *)
(***************************************************************************)
MaxNumPoints == 2
MaxAverages == 1
MaxOuter == 2
MaxPolls == 2
MaxSeqPoints == 4
MaxMonitorCalls == 3
MaxSamples == 2

(***************************************************************************)
(* Program constants                                                       *)
(***************************************************************************)
max_current == 1
max_voltage == 2
voltage_ratio == 1
temperature_tolerance == 1
max_magnetic_field == 90
max_field_ramp_rate == 1
max_temperature == 40000
min_temperature == 1
max_temperature_ramp_rate == 5

NoErr == [kind |-> "none", ph |-> "none", pt |-> 0, o |-> 0]
HwErr(ph, pt, o) == [kind |-> "HardwareCommunicationError", ph |-> ph, pt |-> pt, o |-> o]

Engines == {"IVMeasurement", "IVMeasurement2636B", "DifferentialConductance",
            "TwoDeviceDifferential"}

Channels == {"cs", "smua", "smub"}

\* (start, stop) of the sweeps: within the limit, beyond the limit, descending
SweepRanges == {<<0, 1>>, <<-2, 1>>, <<1, 0>>}

Abs(x) == IF x < 0 THEN -x ELSE x

(***************************************************************************)
(* numpy.linspace(start, stop, num) followed by the optional reverse pass  *)
(***************************************************************************)
RECURSIVE Factorial(_)
Factorial(n) == IF n <= 1 THEN 1 ELSE n * Factorial(n - 1)

\* setpoints are held in units of 1 / Resolution of the unit of start and
\* stop, so that the step (stop - start) / (num - 1) is exact
Resolution ==
    Factorial((IF MaxNumPoints > MaxSeqPoints THEN MaxNumPoints ELSE MaxSeqPoints) - 1)

\* a linspace without the endpoint: step (stop - start) / num
LinspaceOpenEnd(start, stop, num) ==
    [i \in 1..num |-> start * Resolution + (i - 1) * (((stop - start) * Resolution) \div num)]

Linspace(start, stop, num) ==
    [i \in 1..num |->
        IF num = 1 THEN start * Resolution
        ELSE IF i = num THEN stop * Resolution
        ELSE start * Resolution + (i - 1) * (((stop - start) * Resolution) \div (num - 1))]

\* a second forward pass instead of the reverse pass
KeepOrder(s) == s

Reverse(s) == [i \in 1..Len(s) |-> s[Len(s) + 1 - i]]

\* a point sequence that never gets its reverse half
ForwardPoints(p) == Linspace(p.start, p.stop, p.numPoints)

SweepPoints(p) ==
    LET fwd == Linspace(p.start, p.stop, p.numPoints)
    IN  IF p.bidirectional THEN fwd \o Reverse(fwd) ELSE fwd

(***************************************************************************)
(* SafetyChecks.check_current / check_voltage / check_sweep_parameters     *)
(***************************************************************************)
check_current(current) == ~(Abs(current) > max_current)

check_voltage(voltage) == ~(Abs(voltage) > max_voltage)

SweepsCurrent(e) == e \in {"IVMeasurement", "IVMeasurement2636B"}

\* the descriptor of a sweep holds current_range or voltage_range
check_sweep_parameters(e, p) ==
    IF SweepsCurrent(e)
    THEN check_current(p.start) /\ check_current(p.stop)
    ELSE check_voltage(p.start) /\ check_voltage(p.stop)

(***************************************************************************)
(* The instrument operations of each sweep engine, in program order.       *)
(*   t: config | enable | set | get | zero | disable                       *)
(***************************************************************************)
Op(t, dev) == [t |-> t, dev |-> dev]

SmuCh(c) == IF c.channel = "a" THEN "smua" ELSE "smub"

\* operations before the try block: configuration, then output enable
PrologueOps(c) ==
    CASE c.cls = "IVMeasurement" ->
            <<Op("config", "cs")>>
            \o (IF c.params.currentRange # 0 THEN <<Op("config", "cs")>> ELSE <<>>)
            \o <<Op("enable", "cs")>>
      [] c.cls = "IVMeasurement2636B" ->
            <<Op("config", SmuCh(c)), Op("enable", SmuCh(c))>>
      [] c.cls = "DifferentialConductance" ->
            <<Op("config", "lockin"), Op("config", "lockin"), Op("config", "lockin"),
              Op("config", SmuCh(c)), Op("config", SmuCh(c)), Op("enable", SmuCh(c))>>
      [] c.cls = "TwoDeviceDifferential" ->
            <<Op("config", "lockin"), Op("config", "lockin"), Op("config", "lockin"),
              Op("enable", "smua"), Op("enable", "smub")>>

RECURSIVE Repeat(_, _)
Repeat(s, n) == IF n = 0 THEN <<>> ELSE s \o Repeat(s, n - 1)

\* operations of one iteration of the per-point loop
BodyOps(c) ==
    CASE c.cls = "IVMeasurement" ->
            <<Op("set", "cs"), Op("get", "voltage")>>
      [] c.cls = "IVMeasurement2636B" ->
            <<Op("set", SmuCh(c)), Op("get", "voltage")>>
      [] c.cls = "DifferentialConductance" ->
            <<Op("set", SmuCh(c)), Op("get", "time_constant")>>
            \o Repeat(<<Op("get", "current"), Op("get", "ac")>>, c.params.averages)
      [] c.cls = "TwoDeviceDifferential" ->
            <<Op("set", "smua"), Op("set", "smub"), Op("get", "time_constant")>>
            \o Repeat(<<Op("get", "current"), Op("get", "current_b"), Op("get", "ac")>>,
                      c.params.averages)

\* operations of the finally block
CleanupOps(c) ==
    CASE c.cls = "IVMeasurement" -> <<Op("zero", "cs"), Op("disable", "cs")>>
      [] c.cls = "IVMeasurement2636B" -> <<Op("zero", SmuCh(c)), Op("disable", SmuCh(c))>>
      [] c.cls = "DifferentialConductance" -> <<Op("zero", SmuCh(c)), Op("disable", SmuCh(c))>>
      [] c.cls = "TwoDeviceDifferential" ->
            <<Op("zero", "smua"), Op("zero", "smub"),
              Op("disable", "smua"), Op("disable", "smub")>>

\* recorded channels of each engine
ResultChannels(e) ==
    CASE e = "IVMeasurement" -> {"current", "voltage"}
      [] e = "IVMeasurement2636B" -> {"current", "voltage"}
      [] e = "DifferentialConductance" ->
            {"voltage", "current", "resistance", "diff_voltage_x", "diff_voltage_y",
             "diff_voltage_r", "diff_voltage_phase", "diff_conductance",
             "diff_resistance"}
      [] e = "TwoDeviceDifferential" ->
            {"voltage_a", "voltage_b", "current_a", "current_b",
             "resistance_a", "resistance_b", "diff_voltage_x", "diff_voltage_y",
             "diff_conductance_a", "diff_conductance_b"}

(***************************************************************************)
(* Floating-point values: finite n/d (d > 0), signed infinity, NaN         *)
(***************************************************************************)
Num(n) == [tag |-> "num", n |-> n, d |-> 1]
Frac(n, d) == [tag |-> "num", n |-> n, d |-> d]
Inf(sign) == [tag |-> "inf", n |-> sign, d |-> 0]
NaN == [tag |-> "nan", n |-> 0, d |-> 0]

Sign(x) == IF x < 0 THEN -1 ELSE IF x > 0 THEN 1 ELSE 0
IsZero(a) == a.tag = "num" /\ a.n = 0

\* IEEE-754 division, as numpy performs it (no exception)
FDiv(a, b) ==
    CASE a.tag = "nan" \/ b.tag = "nan" -> NaN
      [] a.tag = "inf" /\ b.tag = "inf" -> NaN
      [] a.tag = "inf" /\ b.tag = "num" -> Inf(IF b.n < 0 THEN -a.n ELSE a.n)
      [] a.tag = "num" /\ b.tag = "inf" -> Num(0)
      [] a.tag = "num" /\ b.tag = "num" /\ b.n = 0 ->
            IF a.n = 0 THEN NaN ELSE Inf(Sign(a.n))
      [] OTHER -> Frac(Sign(b.n) * a.n * b.d, Abs(b.n) * a.d)

\* IEEE-754 multiplication
FMul(a, b) ==
    CASE a.tag = "nan" \/ b.tag = "nan" -> NaN
      [] a.tag = "inf" /\ b.tag = "inf" -> Inf(a.n * b.n)
      [] a.tag = "inf" -> IF b.n = 0 THEN NaN ELSE Inf(a.n * Sign(b.n))
      [] b.tag = "inf" -> IF a.n = 0 THEN NaN ELSE Inf(b.n * Sign(a.n))
      [] OTHER -> Frac(a.n * b.n, a.d * b.d)

\* "x / y if y != 0 else np.inf"
GuardedDiv(a, b) == IF ~IsZero(b) THEN FDiv(a, b) ELSE Inf(1)

\* square root of a perfect square
Sqrt(n) == CHOOSE r \in 0..n : r * r = n

(***************************************************************************)
(* The device under test answers every reading: V = g*I or I = g*V, and a  *)
(* lock-in response (x, y).                                                *)
(***************************************************************************)
DUTs == {[g |-> 0, x |-> 0, y |-> 0],
         [g |-> 1, x |-> 1, y |-> 0],
         [g |-> 1, x |-> 0, y |-> 1]}

SourceChannel(c) == IF c.cls = "IVMeasurement" THEN "cs" ELSE SmuCh(c)

ZeroAvg == [voltage |-> 0, current |-> 0, current_b |-> 0, x |-> 0, y |-> 0, r |-> 0,
            phase |-> 0]

\* degrees(arctan2(y, x)) on the lock-in responses of DUTs
PhaseDeg(x, y) == IF x = 0 /\ y > 0 THEN 90 ELSE 0

\* avg after a successful reading of kind what
Accumulate(a, what, c, lv) ==
    CASE what = "voltage" -> [a EXCEPT !.voltage = @ + c.dut.g * lv[SourceChannel(c)]]
      [] what = "current" ->
            [a EXCEPT !.current = @ + c.dut.g *
                (IF c.cls = "TwoDeviceDifferential" THEN lv["smua"] ELSE lv[SourceChannel(c)])]
      [] what = "current_b" -> [a EXCEPT !.current_b = @ + c.dut.g * lv["smub"]]
      [] what = "ac" ->
            [a EXCEPT !.x = @ + c.dut.x, !.y = @ + c.dut.y,
                      !.r = @ + Sqrt(c.dut.x * c.dut.x + c.dut.y * c.dut.y),
                      !.phase = @ + PhaseDeg(c.dut.x, c.dut.y)]
      [] OTHER -> a

Append1(res, ch, v) == [res EXCEPT ![ch] = Append(@, v)]

\* the independent channel of each engine
IndependentChannel(e) ==
    CASE e \in {"IVMeasurement", "IVMeasurement2636B"} -> "current"
      [] e = "DifferentialConductance" -> "voltage"
      [] e = "TwoDeviceDifferential" -> "voltage_a"

\* a loop iteration that appends the setpoint and forgets the readings
RecordSetpointOnly(res, c, pt, a) ==
    [res EXCEPT ![IndependentChannel(c.cls)] = Append(@, Num(pt))]

\* the appends at the end of one loop iteration
RecordPoint(res, c, pt, a) ==
    LET n == c.params.averages
    IN
    CASE c.cls \in {"IVMeasurement", "IVMeasurement2636B"} ->
            [res EXCEPT !["current"] = Append(@, Num(pt)),
                        !["voltage"] = Append(@, Num(a.voltage))]
      [] c.cls = "DifferentialConductance" ->
            LET i_avg == Frac(a.current, n)
                r_avg == Frac(a.r, n)
                amp == Num(c.params.acAmplitude)
            IN  [res EXCEPT
                    !["voltage"] = Append(@, Num(pt)),
                    !["current"] = Append(@, i_avg),
                    !["resistance"] = Append(@, GuardedDiv(Num(pt), i_avg)),
                    !["diff_voltage_x"] = Append(@, Frac(a.x, n)),
                    !["diff_voltage_y"] = Append(@, Frac(a.y, n)),
                    !["diff_voltage_r"] = Append(@, r_avg),
                    !["diff_voltage_phase"] = Append(@, Frac(a.phase, n)),
                    !["diff_conductance"] =
                        Append(@, IF ~IsZero(r_avg) THEN FDiv(amp, r_avg) ELSE Num(0)),
                    !["diff_resistance"] = Append(@, GuardedDiv(r_avg, amp))]
      [] c.cls = "TwoDeviceDifferential" ->
            LET va == Num(pt)
                vb == Num(pt * voltage_ratio)
                ia == Frac(a.current, n)
                ib == Frac(a.current_b, n)
                x == Frac(a.x, n)
                y == Frac(a.y, n)
                ra == GuardedDiv(va, ia)
                rb == GuardedDiv(vb, ib)
                ga == IF ~IsZero(x) \/ ~IsZero(y)
                      THEN FDiv(Num(c.params.acAmplitude),
                                Frac(Sqrt(a.x * a.x + a.y * a.y), n))
                      ELSE Num(0)
                gb == IF ~IsZero(rb) THEN FMul(ga, FDiv(ra, rb)) ELSE Num(0)
            IN  [res EXCEPT
                    !["voltage_a"] = Append(@, va),
                    !["voltage_b"] = Append(@, vb),
                    !["current_a"] = Append(@, ia),
                    !["current_b"] = Append(@, ib),
                    !["resistance_a"] = Append(@, ra),
                    !["resistance_b"] = Append(@, rb),
                    !["diff_voltage_x"] = Append(@, x),
                    !["diff_voltage_y"] = Append(@, y),
                    !["diff_conductance_a"] = Append(@, ga),
                    !["diff_conductance_b"] = Append(@, gb)]

\* the dictionary built by the return statement
ReturnValue(res, c) ==
    IF c.cls \in {"IVMeasurement", "IVMeasurement2636B"}
    THEN [ch \in {"current", "voltage", "resistance"} |->
            IF ch = "resistance"
            THEN [i \in 1..Len(res["current"]) |->
                    FDiv(res["voltage"][i], res["current"][i])]
            ELSE res[ch]]
    ELSE res

(***************************************************************************)
(* The sweep engine: run_sweep / run_synchronized_sweep                    *)
(***************************************************************************)
NestedClasses == {"IVFieldSweep", "STSMeasurement", "IVTemperatureSweep",
                  "TemperatureResistanceSweep"}

\* the engine an orchestrator delegates to
InnerEngine(cls) ==
    CASE cls = "IVFieldSweep" -> "IVMeasurement"
      [] cls = "IVTemperatureSweep" -> "IVMeasurement"
      [] cls = "STSMeasurement" -> "DifferentialConductance"
      [] OTHER -> cls

EngineCall == [call EXCEPT !.cls = InnerEngine(call.cls)]

Points == SweepPoints(call.params)

Event(ph, op, val, ok) ==
    [ph |-> ph, t |-> op.t, dev |-> op.dev, val |-> val, ok |-> ok,
     pt |-> IF ph = "body" THEN idx ELSE 0, o |-> oidx]

\* the exception a failed instrument operation raises
Raised(ph) == HwErr(ph, IF ph = "body" THEN idx ELSE 0, oidx)

\* run_sweep is entered: the point sequence and the result lists are built
StartSweep ==
    /\ phase = "idle"
    /\ opc \in {"none", "inner"}
    /\ EngineCall.cls \in Engines
    /\ phase' = "prologue"
    /\ ip' = 1
    /\ idx' = 1
    /\ avg' = ZeroAvg
    /\ results' = [ch \in ResultChannels(EngineCall.cls) |-> <<>>]
    /\ err' = NoErr
    /\ UNCHANGED <<call, auxVars, output, level, log, outerVars, outerInst>>

\* position after the last operation before the try block
AfterPrologue(n) ==
    IF n > Len(PrologueOps(EngineCall))
    THEN IF Len(Points) = 0 THEN "cleanup" ELSE "body"
    ELSE "prologue"

\* a compliance / range / lock-in configuration write
Configure ==
    /\ phase = "prologue"
    /\ ip <= Len(PrologueOps(EngineCall))
    /\ PrologueOps(EngineCall)[ip].t = "config"
    /\ \E ok \in BOOLEAN :
        /\ log' = Append(log, Event("prologue", PrologueOps(EngineCall)[ip], 0, ok))
        /\ IF ok
           THEN /\ phase' = AfterPrologue(ip + 1)
                /\ ip' = IF AfterPrologue(ip + 1) = "prologue" THEN ip + 1 ELSE 1
                /\ err' = err
           ELSE /\ phase' = "raised"
                /\ ip' = ip
                /\ err' = Raised("prologue")
    /\ UNCHANGED <<call, auxVars, idx, avg, results, output, level, outerVars, outerInst>>

\* the output-enable write; it precedes the try block
EnableOutput ==
    /\ phase = "prologue"
    /\ ip <= Len(PrologueOps(EngineCall))
    /\ PrologueOps(EngineCall)[ip].t = "enable"
    /\ \E ok \in BOOLEAN :
        /\ log' = Append(log, Event("prologue", PrologueOps(EngineCall)[ip], 1, ok))
        /\ IF ok
           THEN /\ output' = [output EXCEPT ![PrologueOps(EngineCall)[ip].dev] = TRUE]
                /\ phase' = AfterPrologue(ip + 1)
                /\ ip' = IF AfterPrologue(ip + 1) = "prologue" THEN ip + 1 ELSE 1
                /\ err' = err
           ELSE /\ output' = output
                /\ phase' = "raised"
                /\ ip' = ip
                /\ err' = Raised("prologue")
    /\ UNCHANGED <<call, auxVars, idx, avg, results, level, outerVars, outerInst>>

\* value written by a setpoint write of the loop
SetpointValue(op) ==
    IF EngineCall.cls = "TwoDeviceDifferential" /\ op.dev = "smub"
    THEN Points[idx] * voltage_ratio
    ELSE Points[idx]

\* the setpoint write of the current sweep point
WriteSetpoint ==
    /\ phase = "body"
    /\ ip <= Len(BodyOps(EngineCall))
    /\ BodyOps(EngineCall)[ip].t = "set"
    /\ \E ok \in BOOLEAN :
        /\ log' = Append(log, Event("body", BodyOps(EngineCall)[ip],
                                    SetpointValue(BodyOps(EngineCall)[ip]), ok))
        /\ IF ok
           THEN /\ level' = [level EXCEPT ![BodyOps(EngineCall)[ip].dev] =
                                SetpointValue(BodyOps(EngineCall)[ip])]
                /\ phase' = phase
                /\ ip' = ip + 1
                /\ err' = err
           ELSE /\ level' = level
                /\ phase' = "cleanup"
                /\ ip' = 1
                /\ err' = Raised("body")
    /\ UNCHANGED <<call, auxVars, idx, avg, results, output, outerVars, outerInst>>

\* one instrument reading of the current sweep point; after the last reading
\* of the point the derived values are computed and the sample is appended
\* to every list
ReadInstrument ==
    /\ phase = "body"
    /\ ip <= Len(BodyOps(EngineCall))
    /\ BodyOps(EngineCall)[ip].t = "get"
    /\ \E ok \in BOOLEAN :
        /\ log' = Append(log, Event("body", BodyOps(EngineCall)[ip], 0, ok))
        /\ IF ok
           THEN LET a == Accumulate(avg, BodyOps(EngineCall)[ip].dev, EngineCall, level)
                    last == ip = Len(BodyOps(EngineCall))
                IN  /\ avg' = IF last THEN ZeroAvg ELSE a
                    /\ results' = IF last
                                  THEN RecordPoint(results, EngineCall, Points[idx], a)
                                  ELSE results
                    /\ idx' = IF last /\ idx < Len(Points) THEN idx + 1 ELSE idx
                    /\ phase' = IF last /\ idx = Len(Points) THEN "cleanup" ELSE phase
                    /\ ip' = IF last THEN 1 ELSE ip + 1
                    /\ err' = err
           ELSE /\ avg' = avg
                /\ results' = results
                /\ idx' = idx
                /\ phase' = "cleanup"
                /\ ip' = 1
                /\ err' = Raised("body")
    /\ UNCHANGED <<call, auxVars, output, level, outerVars, outerInst>>

\* position after an operation of the finally block
AfterCleanup(n, e) ==
    IF n > Len(CleanupOps(EngineCall))
    THEN IF e = NoErr THEN "finish" ELSE "raised"
    ELSE "cleanup"

\* finally: the setpoint is written to zero
CleanupZero ==
    /\ phase = "cleanup"
    /\ ip <= Len(CleanupOps(EngineCall))
    /\ CleanupOps(EngineCall)[ip].t = "zero"
    /\ \E ok \in BOOLEAN :
        /\ log' = Append(log, Event("cleanup", CleanupOps(EngineCall)[ip], 0, ok))
        /\ IF ok
           THEN /\ level' = [level EXCEPT ![CleanupOps(EngineCall)[ip].dev] = 0]
                /\ phase' = AfterCleanup(ip + 1, err)
                /\ ip' = ip + 1
                /\ err' = err
           ELSE /\ level' = level
                /\ phase' = "raised"
                /\ ip' = ip
                /\ err' = Raised("cleanup")
    /\ UNCHANGED <<call, auxVars, idx, avg, results, output, outerVars, outerInst>>

\* finally: the output is switched off
CleanupDisable ==
    /\ phase = "cleanup"
    /\ ip <= Len(CleanupOps(EngineCall))
    /\ CleanupOps(EngineCall)[ip].t = "disable"
    /\ \E ok \in BOOLEAN :
        /\ log' = Append(log, Event("cleanup", CleanupOps(EngineCall)[ip], 0, ok))
        /\ IF ok
           THEN /\ output' = [output EXCEPT ![CleanupOps(EngineCall)[ip].dev] = FALSE]
                /\ phase' = AfterCleanup(ip + 1, err)
                /\ ip' = ip + 1
                /\ err' = err
           ELSE /\ output' = output
                /\ phase' = "raised"
                /\ ip' = ip
                /\ err' = Raised("cleanup")
    /\ UNCHANGED <<call, auxVars, idx, avg, results, level, outerVars, outerInst>>

\* the return statement builds the result dictionary
ReturnResult ==
    /\ phase = "finish"
    /\ phase' = "returned"
    /\ results' = ReturnValue(results, EngineCall)
    /\ UNCHANGED <<call, auxVars, ip, idx, avg, err, output, level, log, outerVars, outerInst>>

SweepNext ==
    \/ StartSweep
    \/ Configure
    \/ EnableOutput
    \/ WriteSetpoint
    \/ ReadInstrument
    \/ CleanupZero
    \/ CleanupDisable
    \/ ReturnResult

\* an exception raised outside the sweep engine
OErr(kind) == [kind |-> kind, ph |-> "outer", pt |-> 0, o |-> oidx]

(***************************************************************************)
(* The station and the constructors of the measurement classes            *)
(***************************************************************************)
Instruments ==
    {"magnet", "temperature_controller", "current_source", "nanovoltmeter", "smu_dual",
     "lockin"}

ConstructedClasses ==
    {"IVMeasurement", "DifferentialConductance", "IVFieldSweep", "IVTemperatureSweep",
     "STSMeasurement", "HallMeasurement"}

\* an "if not ...: raise RuntimeError" test whose condition evaluates to cond
Require(cond) == [t |-> "require", dev |-> "station", ok |-> cond]

\* a configuration call on an instrument driver
Write(dev, what) == [t |-> what, dev |-> dev, ok |-> TRUE]

setup_dc_transport_measurement(st) ==
    <<Require("current_source" \in st /\ "nanovoltmeter" \in st),
      Write("current_source", "configure_delta_mode"),
      Write("nanovoltmeter", "configure_delta_mode"),
      Write("nanovoltmeter", "nplc")>>

setup_ac_transport_measurement(st) ==
    <<Require("lockin" \in st),
      Write("lockin", "frequency"),
      Write("lockin", "amplitude"),
      Write("lockin", "time_constant")>>

setup_differential_measurement(st) ==
    <<Require("smu_dual" \in st /\ "lockin" \in st),
      Write("smu_dual", "configure_voltage_source"),
      Write("smu_dual", "set_compliance"),
      Write("lockin", "amplitude"),
      Write("lockin", "frequency"),
      Write("lockin", "time_constant")>>

\* station.magnet and (station.current_source and station.nanovoltmeter)
\*     or station.lockin
HallInstrumentsPresent(st) ==
    \/ "magnet" \in st /\ ("current_source" \in st /\ "nanovoltmeter" \in st)
    \/ "lockin" \in st

IVMeasurementInit(st) ==
    <<Require("current_source" \in st /\ "nanovoltmeter" \in st)>>
    \o setup_dc_transport_measurement(st)

DifferentialConductanceInit(st) ==
    <<Require("smu_dual" \in st /\ "lockin" \in st)>>
    \o setup_differential_measurement(st)

\* the steps of __init__ of each class, in program order
ConstructorOps(cls, st) ==
    CASE cls = "IVMeasurement" -> IVMeasurementInit(st)
      [] cls = "DifferentialConductance" -> DifferentialConductanceInit(st)
      [] cls = "IVFieldSweep" -> IVMeasurementInit(st) \o <<Require("magnet" \in st)>>
      [] cls = "IVTemperatureSweep" ->
            IVMeasurementInit(st) \o <<Require("temperature_controller" \in st)>>
      [] cls = "STSMeasurement" ->
            DifferentialConductanceInit(st) \o <<Require("magnet" \in st)>>
      [] cls = "HallMeasurement" ->
            <<Require(HallInstrumentsPresent(st))>>
            \o (IF "lockin" \in st THEN setup_ac_transport_measurement(st)
                ELSE setup_dc_transport_measurement(st))

CEvent(op, ok) ==
    [ph |-> "init", t |-> op.t, dev |-> op.dev, val |-> 0, ok |-> ok, pt |-> 0, o |-> 0]

\* position after step n of the constructor
AfterConstructorStep(n) ==
    IF n >= Len(ConstructorOps(call.cls, call.station)) THEN "constructed" ELSE "construct"

\* an instrument-presence test of the constructor
ConstructRequire ==
    /\ opc = "construct"
    /\ LET op == ConstructorOps(call.cls, call.station)[oip]
       IN /\ op.t = "require"
          /\ IF op.ok
             THEN opc' = AfterConstructorStep(oip) /\ oip' = oip + 1 /\ oerr' = oerr
             ELSE opc' = "raised" /\ oip' = oip /\ oerr' = OErr("RuntimeError")
    /\ UNCHANGED <<call, auxVars, sweepVars, output, level, log, oidx, polls, allData, outerInst>>

\* a configuration write of the constructor
ConstructWrite ==
    /\ opc = "construct"
    /\ LET op == ConstructorOps(call.cls, call.station)[oip]
       IN /\ op.t # "require"
          /\ \E ok \in BOOLEAN :
                /\ log' = Append(log, CEvent(op, ok))
                /\ IF ok
                   THEN opc' = AfterConstructorStep(oip) /\ oip' = oip + 1 /\ oerr' = oerr
                   ELSE /\ opc' = "raised"
                        /\ oip' = oip
                        /\ oerr' = OErr("HardwareCommunicationError")
    /\ UNCHANGED <<call, auxVars, sweepVars, output, level, oidx, polls, allData, outerInst>>

\* run_hall_sweep is entered on a constructed HallMeasurement
StartHallSweep ==
    /\ opc = "constructed"
    /\ call.cls = "HallMeasurement"
    /\ opc' = "run_hall_sweep"
    /\ oip' = 1
    /\ UNCHANGED <<call, auxVars, sweepVars, output, level, log, oidx, polls, allData, oerr, outerInst>>

ConstructNext ==
    \/ ConstructRequire
    \/ ConstructWrite
    \/ StartHallSweep

(***************************************************************************)
(* The magnet controller: set_field_vector, set_field_polar                *)
(***************************************************************************)
field_limit == 9000

MagnetCalls == {"set_field_vector", "set_field_polar"}
\* the settling primitives called on their own
WaitCalls == {"wait_for_temperature", "wait_for_ramp_completion"}
DirectCalls == MagnetCalls \cup WaitCalls \cup {"set_temperature"}
FieldClasses ==
    {"IVFieldSweep", "STSMeasurement", "HallMeasurement", "wait_for_ramp_completion"}
        \cup MagnetCalls
TemperatureClasses == {"IVTemperatureSweep", "TemperatureResistanceSweep"}

\* cos and sin of the angles used, in units of 1e-4
CosE4(angle) ==
    CASE angle = 0 -> 10000 [] angle = 45 -> 7071 [] angle = 90 -> 0 [] angle = 225 -> -7071

SinE4(angle) ==
    CASE angle = 0 -> 0 [] angle = 45 -> 7071 [] angle = 90 -> 10000 [] angle = 225 -> -7071

\* n / d rounded to the nearest integer
RoundDiv(n, d) == IF n >= 0 THEN (2 * n + d) \div (2 * d) ELSE -((2 * (-n) + d) \div (2 * d))

\* magnitude * cos(angle), magnitude * sin(angle): each product is rounded
PolarToCartesian(magnitude, angle_deg) ==
    <<RoundDiv(magnitude * CosE4(angle_deg), 10000),
      RoundDiv(magnitude * SinE4(angle_deg), 10000)>>

\* run_hall_sweep: the field vector commanded for field point `field` along
\* field_axis; any axis other than x and y goes through set_field_polar with
\* abs(field) at angle 0
HallTarget(axis, field) ==
    CASE axis = "x" -> <<field, 0>>
      [] axis = "y" -> <<0, field>>
      [] OTHER -> PolarToCartesian(Abs(field), 0)

\* the field vector a call or an outer point commands
FieldTarget(c, pt) ==
    IF c.cls = "set_field_polar" THEN PolarToCartesian(pt[1], pt[2])
    ELSE IF c.cls = "HallMeasurement" THEN HallTarget(c.axis, pt)
    ELSE pt

\* "magnitude > self.field_limit" with magnitude = sqrt(fx^2 + fy^2)
ExceedsLimit(fx, fy, limit) == fx * fx + fy * fy > limit * limit

\* sqrt((m cos a)^2 + (m sin a)^2) - m in units in the last place of m, as
\* IEEE double arithmetic computes it for the magnitudes and angles used
RoundTripUlps(magnitude, angle_deg) == IF magnitude = 9000 /\ angle_deg = 225 THEN 1 ELSE 0

\* the magnitude check of set_field_vector on the vector the call commands;
\* set_field_polar hands it the rounded products
MagnitudeExceeds(c, pt) ==
    IF c.cls = "set_field_polar"
    THEN pt[1] > c.fieldLimit \/ (pt[1] = c.fieldLimit /\ RoundTripUlps(pt[1], pt[2]) > 0)
    ELSE IF c.cls = "HallMeasurement"
    THEN IF c.axis \in {"x", "y"}
         THEN ExceedsLimit(HallTarget(c.axis, pt)[1], HallTarget(c.axis, pt)[2], c.fieldLimit)
         ELSE Abs(pt) > c.fieldLimit
                \/ (Abs(pt) = c.fieldLimit /\ RoundTripUlps(Abs(pt), 0) > 0)
    ELSE ExceedsLimit(pt[1], pt[2], c.fieldLimit)

\* the Numbers(-field_limit, field_limit) validator of field_x and field_y
ValidatorRejects(v) == ~(-field_limit <= v /\ v <= field_limit)

(***************************************************************************)
(* TransportMeasurement.measure_resistance                                 *)
(***************************************************************************)
MeasureResistanceOps(mode, averages) ==
    CASE mode = "lockin" ->
            <<Op("get", "ac"), Op("get", "time_constant")>>
            \o Repeat(<<Op("get", "ac")>>, averages)
      [] mode = "dc" ->
            Repeat(<<Op("get", "voltage")>>, averages) \o <<Op("get", "current")>>
      [] mode = "smu" ->
            <<Op("set", "smua")>> \o Repeat(<<Op("get", "iv")>>, averages)

(***************************************************************************)
(* The nested-sweep orchestrators: run_field_sweep, run_temperature_sweep  *)
(***************************************************************************)
OEvent(t, dev, val, ok) ==
    [ph |-> "outer", t |-> t, dev |-> dev, val |-> val, ok |-> ok, pt |-> 0, o |-> oidx]

\* operations of the orchestrator before its try block
OuterPrologueOps(c) ==
    IF c.cls \in {"TemperatureResistanceSweep", "HallMeasurement"} /\ c.mode = "dc"
    THEN <<Op("set", "cs"), Op("enable", "cs")>>
    ELSE IF c.cls = "HallMeasurement"
    THEN <<Op("config", "lockin_amplitude"), Op("config", "lockin_frequency")>>
    ELSE <<>>

\* operations of the finally block of the orchestrator
OuterCleanupOps(c) ==
    IF c.cls \in {"TemperatureResistanceSweep", "HallMeasurement"} /\ c.mode = "dc"
    THEN <<Op("disable", "cs"), Op("zero", "cs")>>
    ELSE <<>>

\* instrument operations that command the outer setpoint
OuterCommandOps(c) ==
    IF c.cls \in FieldClasses
    THEN <<Op("field_x", "magnet"), Op("field_y", "magnet"), Op("ramp", "magnet")>>
    ELSE IF c.cls \in {"wait_for_temperature", "set_temperature"}
    THEN <<Op("cset", "temperature")>>
    ELSE <<Op("setpoint", "temperature"), Op("cset", "temperature")>>

\* the measurement of TemperatureResistanceSweep at one temperature
OuterMeasureOps(c) ==
    IF c.cls = "HallMeasurement"
    THEN IF c.mode = "lockin"
         THEN <<Op("get", "time_constant"), Op("get", "ac")>>
         ELSE <<Op("get", "voltage"), Op("get", "current")>>
    ELSE <<Op("get", "mixing_chamber_temp")>>
            \o MeasureResistanceOps(c.mode, c.params.averages)

\* a settling wait that raises on every timeout
TimeoutRaises(cls) == "raise"

\* what the settling wait does when the timeout elapses
TimeoutOutcome(cls) == IF cls \in FieldClasses THEN "raise" ELSE "return_false"

\* an orchestrator that stores whatever the inner run_sweep left behind
OuterSwallowsInner(ph) == "store"

\* what the orchestrator does when the inner run_sweep has ended
OuterAfterInner(ph) == IF ph = "raised" THEN "propagate" ELSE "store"

\* position of an exception raised in the loop of the orchestrator
OuterFailed(c) == IF OuterCleanupOps(c) # <<>> THEN "ocleanup" ELSE "raised"

\* position at the start of an outer point
PointEntry(c) ==
    IF c.cls = "wait_for_ramp_completion" THEN "settle"
    ELSE IF c.cls \in FieldClasses THEN "validate" ELSE "command"

\* position after the loop of the orchestrator
OuterDone(c) == IF OuterCleanupOps(c) # <<>> THEN "ocleanup" ELSE "returned"

\* run_field_sweep / run_temperature_sweep / a magnet call is entered
StartOuter ==
    /\ opc = "start"
    /\ IF OuterPrologueOps(call) # <<>>
       THEN opc' = "oprologue" /\ oidx' = 0
       ELSE opc' = PointEntry(call) /\ oidx' = 1
    /\ oip' = 1
    /\ polls' = 0
    /\ UNCHANGED <<call, auxVars, sweepVars, output, level, log, allData, oerr, outerInst>>

\* the measurement current is set and the output enabled, before the try block
OuterPrologue ==
    /\ opc = "oprologue"
    /\ oip <= Len(OuterPrologueOps(call))
    /\ LET op == OuterPrologueOps(call)[oip]
           lastOp == oip = Len(OuterPrologueOps(call))
       IN \E ok \in BOOLEAN :
            /\ log' = Append(log, OEvent(op.t, op.dev, 1, ok))
            /\ level' = IF ok /\ op.t = "set" THEN [level EXCEPT ![op.dev] = 1] ELSE level
            /\ output' = IF ok /\ op.t = "enable" THEN [output EXCEPT ![op.dev] = TRUE]
                         ELSE output
            /\ IF ok
               THEN /\ opc' = IF lastOp THEN PointEntry(call) ELSE opc
                    /\ oidx' = IF lastOp THEN 1 ELSE oidx
                    /\ oip' = IF lastOp THEN 1 ELSE oip + 1
                    /\ oerr' = oerr
               ELSE /\ opc' = "raised"
                    /\ oidx' = oidx
                    /\ oip' = oip
                    /\ oerr' = OErr("HardwareCommunicationError")
    /\ UNCHANGED <<call, auxVars, sweepVars, polls, allData, outerInst>>

\* set_field_vector: the magnitude check that precedes the writes
ValidateField ==
    /\ opc = "validate"
    /\ IF MagnitudeExceeds(call, call.outer[oidx])
       THEN opc' = OuterFailed(call) /\ oerr' = OErr("ValueError")
       ELSE opc' = "command" /\ oerr' = oerr
    /\ oip' = 1
    /\ UNCHANGED <<call, auxVars, sweepVars, output, level, log, oidx, polls, allData, outerInst>>

\* the call goes on to its next point without a measurement
NextPointDirectly(c) == c.cls \in DirectCalls /\ oidx < Len(c.outer)

\* position after the last operation that commands the outer setpoint
AfterCommand(c) ==
    IF c.wait THEN "settle"
    ELSE IF oidx < Len(c.outer) THEN PointEntry(c) ELSE OuterDone(c)

\* the outer instrument is commanded: field_x, field_y and RAMP writes, or
\* the setpoint write followed by the CSET query of wait_for_temperature
OuterCommand ==
    /\ opc = "command"
    /\ oip <= Len(OuterCommandOps(call))
    /\ LET op == OuterCommandOps(call)[oip]
           f == FieldTarget(call, call.outer[oidx])
           v == CASE op.t = "field_x" -> f[1]
                  [] op.t = "field_y" -> f[2]
                  [] op.t = "setpoint" -> call.outer[oidx]
                  [] OTHER -> 0
       IN IF op.t \in {"field_x", "field_y"} /\ ValidatorRejects(v)
          THEN /\ opc' = OuterFailed(call)
               /\ oerr' = OErr("ValueError")
               /\ UNCHANGED <<log, magnet, tctl, oip, oidx, polls>>
          ELSE \E ok \in BOOLEAN :
               /\ log' = Append(log, OEvent(op.t, op.dev, v, ok))
               /\ magnet' = IF ~ok THEN magnet
                            ELSE CASE op.t = "field_x" -> [magnet EXCEPT !.field_x = v]
                                   [] op.t = "field_y" -> [magnet EXCEPT !.field_y = v]
                                   [] op.t = "ramp" -> [magnet EXCEPT !.ramps = @ + 1]
                                   [] OTHER -> magnet
               /\ tctl' = IF ok /\ op.t = "setpoint"
                          THEN [tctl EXCEPT ![call.loop] = v] ELSE tctl
               /\ IF ok
                  THEN /\ opc' = IF oip < Len(OuterCommandOps(call))
                                 THEN opc ELSE AfterCommand(call)
                       /\ oip' = IF oip < Len(OuterCommandOps(call)) THEN oip + 1 ELSE 1
                       /\ oidx' = IF /\ oip = Len(OuterCommandOps(call))
                                     /\ ~call.wait
                                     /\ NextPointDirectly(call)
                                  THEN oidx + 1 ELSE oidx
                       /\ oerr' = oerr
                  ELSE /\ opc' = OuterFailed(call)
                       /\ oip' = oip
                       /\ oidx' = oidx
                       /\ oerr' = OErr("HardwareCommunicationError")
               /\ polls' = 0
    /\ UNCHANGED <<call, auxVars, sweepVars, output, level, allData>>

\* an orchestrator that starts the inner sweep straight after the wait
SettleThenSweep(c) ==
    IF c.cls \in DirectCalls
    THEN IF oidx < Len(c.outer) THEN PointEntry(c) ELSE OuterDone(c)
    ELSE IF c.cls \in {"TemperatureResistanceSweep", "HallMeasurement"} THEN "delay"
    ELSE "inner"

\* position after a settling wait that has ended without raising
AfterSettle(c) ==
    IF c.cls \in DirectCalls
    THEN IF oidx < Len(c.outer) THEN PointEntry(c) ELSE OuterDone(c)
    ELSE "delay"

\* answers of STATE? and of KRDG? (temperatures in units of 10 mK)
MagnetStatuses == {"HOLDING", "RAMPING"}
TemperatureReadings == {0, 1, 4, 6}

\* readings the instrument may answer to a poll
PollReadings(c) ==
    IF c.cls \in FieldClasses THEN MagnetStatuses
    ELSE IF c.cls \in WaitCalls THEN TemperatureReadings
    ELSE {c.outer[oidx], c.outer[oidx] + 2 * temperature_tolerance}

\* the target the settling wait compares with: the setpoint handed to
\* wait_for_temperature (the ramp wait has none)
WaitTarget(c) == IF c.cls \in FieldClasses THEN 0 ELSE c.outer[oidx]

\* a test on the signed difference reading - target
SettledSigned(c, target, reading) ==
    IF c.cls \in FieldClasses THEN reading = "HOLDING"
    ELSE reading - target <= temperature_tolerance

\* the exit test of the wait loop: 'HOLDING' in status, or
\* abs(current_temp - target) <= tolerance
Settled(c, target, reading) ==
    IF c.cls \in FieldClasses THEN reading = "HOLDING"
    ELSE Abs(reading - target) <= temperature_tolerance

\* what the wait hands back when its loop is left on the exit test
SettledResult(c) == IF c.cls \in FieldClasses THEN "None" ELSE "True"

\* one poll of wait_for_ramp_completion / wait_for_temperature: the query
\* raises, or the reading passes the exit test and the wait returns, or it
\* does not and the wait sleeps; the poll whose sleep uses up the timeout
\* ends the wait
SettlePoll ==
    /\ opc = "settle"
    /\ polls < MaxPolls
    /\ \/ /\ log' = Append(log, OEvent("poll", IF call.cls \in FieldClasses
                                               THEN "magnet" ELSE "temperature", 0, FALSE))
          /\ opc' = OuterFailed(call)
          /\ oerr' = OErr("HardwareCommunicationError")
          /\ waitResult' = "HardwareCommunicationError"
          /\ UNCHANGED <<polls, oidx>>
       \/ \E reading \in PollReadings(call) :
            /\ log' = Append(log, OEvent("poll", IF call.cls \in FieldClasses
                                                 THEN "magnet" ELSE "temperature",
                                         reading, TRUE))
            /\ CASE Settled(call, WaitTarget(call), reading) ->
                        /\ opc' = AfterSettle(call)
                        /\ oidx' = IF NextPointDirectly(call) THEN oidx + 1 ELSE oidx
                        /\ oerr' = oerr
                        /\ polls' = polls
                        /\ waitResult' = SettledResult(call)
                 [] ~Settled(call, WaitTarget(call), reading) /\ polls + 1 < MaxPolls ->
                        /\ polls' = polls + 1
                        /\ waitResult' = "waiting"
                        /\ UNCHANGED <<opc, oerr, oidx>>
                 [] ~Settled(call, WaitTarget(call), reading) /\ polls + 1 >= MaxPolls ->
                        /\ polls' = polls + 1
                        /\ IF TimeoutOutcome(call.cls) = "raise"
                           THEN /\ opc' = OuterFailed(call)
                                /\ oerr' = OErr("TimeoutError")
                                /\ oidx' = oidx
                                /\ waitResult' = "TimeoutError"
                           ELSE /\ opc' = AfterSettle(call)
                                /\ oidx' = IF NextPointDirectly(call) THEN oidx + 1 ELSE oidx
                                /\ oerr' = oerr
                                /\ waitResult' = "False"
    /\ oip' = 1
    /\ UNCHANGED <<call, points, monVars, verdict, sweepVars, output, level, allData, outerInst>>

\* the fixed sleep after the settling wait (and the warning after a timeout)
PostSettleDelay ==
    /\ opc = "delay"
    /\ log' = Append(log, OEvent("delay", "none", 0, TRUE))
    /\ opc' = IF call.cls \in {"TemperatureResistanceSweep", "HallMeasurement"}
               THEN "measure" ELSE "inner"
    /\ oip' = 1
    /\ UNCHANGED <<call, auxVars, sweepVars, output, level, oidx, polls, allData, oerr, outerInst>>

\* an orchestrator that stores the first outer point with every result
OuterEntryOfFirst(pt, res) == [o |-> oidx, point |-> call.outer[1], data |-> res]

\* entry of the result of outer point oidx
OuterEntry(pt, res) == [o |-> oidx, point |-> pt, data |-> res]

\* the inner run_sweep has ended: its result is stored and the loop goes on
\* to the next outer point, or its exception leaves the orchestrator
FinishInner ==
    /\ opc = "inner"
    /\ phase \in {"returned", "raised"}
    /\ IF OuterAfterInner(phase) = "propagate"
       THEN /\ opc' = OuterFailed(call)
            /\ oerr' = err
            /\ UNCHANGED <<allData, oidx, phase>>
       ELSE /\ allData' = Append(allData, OuterEntry(call.outer[oidx], results))
            /\ oerr' = oerr
            /\ phase' = "idle"
            /\ IF oidx < Len(call.outer)
               THEN oidx' = oidx + 1 /\ opc' = PointEntry(call)
               ELSE oidx' = oidx /\ opc' = OuterDone(call)
    /\ oip' = 1
    /\ UNCHANGED <<call, auxVars, ip, idx, avg, results, err, output, level, log, polls, outerInst>>

\* TemperatureResistanceSweep: the temperature readback and measure_resistance;
\* after the last operation the sample is stored
OuterMeasure ==
    /\ opc = "measure"
    /\ oip <= Len(OuterMeasureOps(call))
    /\ LET op == OuterMeasureOps(call)[oip]
           lastOp == oip = Len(OuterMeasureOps(call))
       IN \E ok \in BOOLEAN :
            /\ log' = Append(log, OEvent(op.t, op.dev, 1, ok))
            /\ level' = IF ok /\ op.t = "set" THEN [level EXCEPT ![op.dev] = 1] ELSE level
            /\ IF ok
               THEN /\ allData' = IF lastOp
                                  THEN Append(allData, OuterEntry(call.outer[oidx], <<>>))
                                  ELSE allData
                    /\ oip' = IF lastOp THEN 1 ELSE oip + 1
                    /\ oidx' = IF lastOp /\ oidx < Len(call.outer) THEN oidx + 1 ELSE oidx
                    /\ opc' = IF ~lastOp THEN opc
                              ELSE IF oidx < Len(call.outer) THEN PointEntry(call)
                              ELSE OuterDone(call)
                    /\ oerr' = oerr
               ELSE /\ opc' = OuterFailed(call)
                    /\ oerr' = OErr("HardwareCommunicationError")
                    /\ oip' = 1
                    /\ UNCHANGED <<allData, oidx>>
    /\ UNCHANGED <<call, auxVars, sweepVars, output, polls, outerInst>>

\* the finally block of TemperatureResistanceSweep.run_temperature_sweep
OuterCleanup ==
    /\ opc = "ocleanup"
    /\ oip <= Len(OuterCleanupOps(call))
    /\ LET op == OuterCleanupOps(call)[oip]
           lastOp == oip = Len(OuterCleanupOps(call))
       IN \E ok \in BOOLEAN :
            /\ log' = Append(log, OEvent(op.t, op.dev, 0, ok))
            /\ level' = IF ok /\ op.t = "zero" THEN [level EXCEPT ![op.dev] = 0] ELSE level
            /\ output' = IF ok /\ op.t = "disable" THEN [output EXCEPT ![op.dev] = FALSE]
                         ELSE output
            /\ IF ok
               THEN /\ opc' = IF ~lastOp THEN opc
                              ELSE IF oerr = NoErr THEN "returned" ELSE "raised"
                    /\ oip' = oip + 1
                    /\ oerr' = oerr
               ELSE /\ opc' = "raised"
                    /\ oip' = oip
                    /\ oerr' = OErr("HardwareCommunicationError")
    /\ UNCHANGED <<call, auxVars, sweepVars, oidx, polls, allData, outerInst>>

\* keys of all_data that hold the arrays of the inner sweep, with the key of
\* the inner result each of them is filled from
ArrayKeys(cls) ==
    IF cls = "STSMeasurement"
    THEN {"voltage", "diff_conductance", "diff_resistance"}
    ELSE {"current", "voltage", "resistance"}

\* keys of all_data that hold the components of the outer setpoint
PointKeys(cls) ==
    IF cls \in FieldClasses THEN {"field_x", "field_y"} ELSE {"temperatures"}

\* the list all_data[k] of the result dictionary of the orchestrator
AllDataList(k) ==
    [i \in 1..Len(allData) |->
        CASE k = "field_x" -> allData[i].point[1]
          [] k = "field_y" -> allData[i].point[2]
          [] k = "temperatures" -> allData[i].point
          [] OTHER -> allData[i].data[k]]

NestedNext ==
    \/ StartOuter
    \/ OuterPrologue
    \/ ValidateField
    \/ OuterCommand
    \/ SettlePoll
    \/ PostSettleDelay
    \/ SweepNext
    \/ FinishInner
    \/ OuterMeasure
    \/ OuterCleanup

(***************************************************************************)
(* Initial states                                                          *)
(***************************************************************************)
NumPointsVals == 1..MaxNumPoints
AveragesVals == 1..MaxAverages

SweepParams(cls) ==
    {[start |-> r[1], stop |-> r[2], numPoints |-> n, bidirectional |-> b,
      currentRange |-> cr, averages |-> av, acAmplitude |-> amp] :
        r \in SweepRanges, n \in NumPointsVals, b \in BOOLEAN,
        cr \in (IF cls = "IVMeasurement" THEN {0, 1} ELSE {0}),
        av \in (IF SweepsCurrent(cls) THEN {1} ELSE AveragesVals),
        amp \in (IF SweepsCurrent(cls) THEN {1} ELSE {0, 1})}

\* devices under test seen by the engine
EngineDUTs(cls) == IF SweepsCurrent(cls) THEN {d \in DUTs : d.y = 0} ELSE DUTs

NoMagnet == [field_x |-> 0, field_y |-> 0, ramps |-> 0]

InitCommon ==
    /\ phase = "idle"
    /\ ip = 1
    /\ idx = 1
    /\ avg = ZeroAvg
    /\ results = <<>>
    /\ err = NoErr
    /\ output = [ch \in Channels |-> FALSE]
    /\ level = [ch \in Channels |-> 0]
    /\ log = <<>>
    /\ points = <<>>
    /\ waitResult = "none"
    /\ monitoring = FALSE
    /\ data_queue = <<>>
    /\ monitor_thread = 0
    /\ threads = <<>>
    /\ mpc = [at |-> "idle", cb |-> FALSE, temp |-> <<>>]
    /\ mhist = <<>>
    /\ verdict = "none"
    /\ oidx = 0
    /\ oip = 1
    /\ polls = 0
    /\ allData = <<>>
    /\ oerr = NoErr
    /\ magnet = NoMagnet
    /\ tctl = [loop \in {1, 2} |-> 0]

Init ==
    /\ InitCommon
    /\ opc = "none"
    /\ \E cls \in Engines :
        \E p \in SweepParams(cls), d \in EngineDUTs(cls) :
            \E ch \in IF cls \in {"IVMeasurement2636B", "DifferentialConductance"}
                      THEN {"a", "b"} ELSE {"a"} :
                call = [cls |-> cls, params |-> p, channel |-> ch, dut |-> d,
                        outer |-> <<>>, mode |-> "none", loop |-> 1, wait |-> TRUE,
                        fieldLimit |-> field_limit,
                        station |-> Instruments]

Next == SweepNext

Spec == Init /\ [][Next]_vars

\* field points and temperatures of the nested sweeps
FieldPoints == {<<3000, 4000>>, <<-4000, 3000>>, <<9000, 1000>>}
TemperaturePoints == {0, 4}

\* a field sweep visits pairwise different field points
OuterLists(cls) ==
    {pts \in UNION {[1..n -> IF cls \in FieldClasses THEN FieldPoints
                              ELSE TemperaturePoints] : n \in 1..MaxOuter} :
        cls \in FieldClasses => \A i, j \in 1..Len(pts) : i # j => pts[i] # pts[j]}

\* inner sweeps of the nested sweeps
NestedParams(cls) ==
    {p \in SweepParams(InnerEngine(cls)) :
        /\ p.start = 0 /\ p.stop = 1 /\ p.numPoints = MaxNumPoints
        /\ ~p.bidirectional /\ p.currentRange = 0 /\ p.acAmplitude = 1}

NestedInit ==
    /\ InitCommon
    /\ opc = "start"
    /\ \E cls \in NestedClasses :
        \E p \in NestedParams(cls), pts \in OuterLists(cls), loop \in {1, 2} :
            \E mode \in IF cls = "TemperatureResistanceSweep"
                        THEN {"lockin", "dc", "smu"} ELSE {"none"} :
                call = [cls |-> cls, params |-> p, channel |-> "a",
                        dut |-> CHOOSE d \in DUTs : d.g = 1 /\ d.x = 1,
                        outer |-> pts, mode |-> mode,
                        loop |-> IF cls \in TemperatureClasses THEN loop ELSE 1,
                        wait |-> TRUE, fieldLimit |-> field_limit,
                        station |-> Instruments]

NestedSpec == NestedInit /\ [][NestedNext]_vars

\* a measurement class is constructed on a station with any set of instruments
ConstructInit ==
    /\ InitCommon
    /\ opc = "construct"
    /\ \E cls \in ConstructedClasses, st \in SUBSET Instruments :
        call = [cls |-> cls,
                params |-> CHOOSE p \in SweepParams("IVMeasurement") : TRUE,
                channel |-> "a", dut |-> CHOOSE d \in DUTs : d.g = 1 /\ d.x = 1,
                outer |-> <<>>, mode |-> "none", loop |-> 1, wait |-> TRUE,
                fieldLimit |-> field_limit, station |-> st]

ConstructSpec == ConstructInit /\ [][ConstructNext]_vars

\* arguments of set_field_vector (mT, mT) and of set_field_polar (mT, degrees)
VectorPoints == {<<3000, 4000>>, <<0, 9000>>, <<9000, 1000>>, <<3000, 10000>>}
PolarPoints == {<<1000, 45>>, <<9000, 0>>, <<9000, 225>>, <<12000, 45>>, <<15000, 45>>}

\* field_limit as set by add_magnet_controller
FieldLimits == {field_limit, 12000}

MagnetNext ==
    \/ StartOuter
    \/ ValidateField
    \/ OuterCommand
    \/ SettlePoll

\* a sequence of set_field_vector or set_field_polar calls on one magnet
MagnetInit ==
    /\ InitCommon
    /\ opc = "start"
    /\ \E cls \in MagnetCalls, wait \in BOOLEAN, limit \in FieldLimits, n \in 1..MaxOuter :
        \E pts \in [1..n -> IF cls = "set_field_polar" THEN PolarPoints ELSE VectorPoints] :
            call = [cls |-> cls,
                    params |-> CHOOSE p \in SweepParams("IVMeasurement") : TRUE,
                    channel |-> "a", dut |-> CHOOSE d \in DUTs : d.g = 1 /\ d.x = 1,
                    outer |-> pts, mode |-> "none", loop |-> 1, wait |-> wait,
                    fieldLimit |-> limit, station |-> Instruments]

MagnetSpec == MagnetInit /\ [][MagnetNext]_vars

(***************************************************************************)
(* BlueforsStation.set_temperature and BlueforsStation.emergency_stop      *)
(***************************************************************************)
StationCalls == {"set_temperature", "emergency_stop"}

\* setattr(instrument, name, value): the attribute of the driver object is
\* bound to the value; no parameter is called and nothing is sent
Rebind(dev, name) == [t |-> "setattr", dev |-> dev, ok |-> TRUE, name |-> name]

\* the shutdown commands of emergency_stop for the instruments of station st
ShutdownOps(st) ==
    (IF "magnet" \in st THEN <<Write("magnet", "pause")>> ELSE <<>>)
    \o (IF "current_source" \in st
        THEN <<Write("current_source", "output_off"), Write("current_source", "current_zero")>>
        ELSE <<>>)
    \o (IF "smu_dual" \in st
        THEN <<Write("smu_dual", "output_a_off"), Write("smu_dual", "output_b_off"),
               Write("smu_dual", "voltage_a_zero"), Write("smu_dual", "voltage_b_zero")>>
        ELSE <<>>)
    \o (IF "lockin" \in st THEN <<Write("lockin", "amplitude_zero")>> ELSE <<>>)

\* the steps of a station method up to its settling wait, in program order
StationOps(c) ==
    IF c.cls = "set_temperature"
    THEN <<Require("temperature_controller" \in c.station),
           Rebind("temperature_controller", "setpoint")>>
    ELSE ShutdownOps(c.station)

SEvent(op, val, ok) ==
    [ph |-> IF op.t = "setattr" THEN "attribute" ELSE "station",
     t |-> op.t, dev |-> op.dev, val |-> val, ok |-> ok, pt |-> 0, o |-> 0]

\* position after step n of a station method
AfterStationStep(c, n) ==
    IF n < Len(StationOps(c)) THEN "station"
    ELSE IF c.cls = "set_temperature" /\ c.wait THEN "command"
    ELSE "returned"

\* an emergency_stop on a station without instruments has nothing to do
StationEntry(c) == IF StationOps(c) = <<>> THEN "returned" ELSE "station"

\* "if not self.temperature_controller: raise RuntimeError"
StationRequire ==
    /\ opc = "station"
    /\ oip <= Len(StationOps(call))
    /\ LET op == StationOps(call)[oip]
       IN /\ op.t = "require"
          /\ IF op.ok
             THEN opc' = AfterStationStep(call, oip) /\ oip' = oip + 1 /\ oerr' = oerr
             ELSE opc' = "raised" /\ oip' = oip /\ oerr' = OErr("RuntimeError")
    /\ UNCHANGED <<call, auxVars, sweepVars, output, level, log, oidx, polls, allData, outerInst>>

\* setattr(self.temperature_controller, f'setpoint_{loop}', temperature)
StationRebind ==
    /\ opc = "station"
    /\ oip <= Len(StationOps(call))
    /\ LET op == StationOps(call)[oip]
       IN /\ op.t = "setattr"
          /\ log' = Append(log, SEvent(op, call.outer[1], TRUE))
          /\ opc' = AfterStationStep(call, oip)
          /\ oip' = IF AfterStationStep(call, oip) = "station" THEN oip + 1 ELSE 1
          /\ oidx' = 1
    /\ UNCHANGED <<call, auxVars, sweepVars, output, level, polls, allData, oerr, outerInst>>

\* the source channel a shutdown command of kind `kinds` acts on
ShutdownChannel(op, kinds) ==
    CASE op.dev = "current_source" /\ op.t \in kinds -> {"cs"}
      [] op.dev = "smu_dual" /\ op.t \in kinds /\ op.t \in {"output_a_off", "voltage_a_zero"} ->
            {"smua"}
      [] op.dev = "smu_dual" /\ op.t \in kinds /\ op.t \in {"output_b_off", "voltage_b_zero"} ->
            {"smub"}
      [] OTHER -> {}

OutputOffKinds == {"output_off", "output_a_off", "output_b_off"}
ZeroKinds == {"current_zero", "voltage_a_zero", "voltage_b_zero"}

\* one shutdown command of emergency_stop; a command that raises ends the call
StationWrite ==
    /\ opc = "station"
    /\ oip <= Len(StationOps(call))
    /\ LET op == StationOps(call)[oip]
       IN /\ op.t \notin {"require", "setattr"}
          /\ \E ok \in BOOLEAN :
                /\ log' = Append(log, SEvent(op, 0, ok))
                /\ output' = [ch \in Channels |->
                                IF ok /\ ch \in ShutdownChannel(op, OutputOffKinds)
                                THEN FALSE ELSE output[ch]]
                /\ level' = [ch \in Channels |->
                                IF ok /\ ch \in ShutdownChannel(op, ZeroKinds)
                                THEN 0 ELSE level[ch]]
                /\ IF ok
                   THEN opc' = AfterStationStep(call, oip) /\ oip' = oip + 1 /\ oerr' = oerr
                   ELSE /\ opc' = "raised"
                        /\ oip' = oip
                        /\ oerr' = OErr("HardwareCommunicationError")
    /\ UNCHANGED <<call, auxVars, sweepVars, oidx, polls, allData, outerInst>>

StationNext ==
    \/ StationRequire
    \/ StationRebind
    \/ StationWrite
    \/ OuterCommand
    \/ SettlePoll

\* one call of set_temperature or of emergency_stop on a station with any
\* set of instruments; the sources may be on when emergency_stop is called
StationInit ==
    /\ phase = "idle" /\ ip = 1 /\ idx = 1 /\ avg = ZeroAvg /\ results = <<>> /\ err = NoErr
    /\ log = <<>> /\ points = <<>> /\ waitResult = "none"
    /\ monitoring = FALSE /\ data_queue = <<>> /\ monitor_thread = 0 /\ threads = <<>>
    /\ mpc = [at |-> "idle", cb |-> FALSE, temp |-> <<>>] /\ mhist = <<>> /\ verdict = "none"
    /\ oidx = 0 /\ oip = 1 /\ polls = 0 /\ allData = <<>> /\ oerr = NoErr
    /\ magnet = NoMagnet /\ tctl = [loop \in {1, 2} |-> 0]
    /\ \E cls \in StationCalls, st \in SUBSET Instruments, loop \in {1, 2},
          wait \in BOOLEAN, target \in TemperaturePoints, on \in BOOLEAN :
        /\ cls = "emergency_stop" => loop = 1 /\ wait /\ target = 0
        /\ cls = "set_temperature" => ~on
        /\ output = [ch \in Channels |-> on]
        /\ level = [ch \in Channels |-> IF on THEN 1 ELSE 0]
        /\ call = [cls |-> cls,
                   params |-> CHOOSE p \in SweepParams("IVMeasurement") : TRUE,
                   channel |-> "a", dut |-> CHOOSE d \in DUTs : d.g = 1 /\ d.x = 1,
                   outer |-> <<target>>, mode |-> "none", loop |-> loop, wait |-> wait,
                   fieldLimit |-> field_limit, station |-> st]
        /\ opc = StationEntry(call)

StationSpec == StationInit /\ [][StationNext]_vars

\* (field_min, field_max) of the Hall sweeps, in mT
HallRanges == {<<-1000, 1000>>, <<-2000, 0>>, <<0, 10000>>}

\* run_hall_sweep: np.linspace(field_min, field_max, field_points), followed
\* by its reverse when bidirectional_field is set
HallFieldPoints(range, n, bidirectional) ==
    LET all == SweepPoints([start |-> range[1], stop |-> range[2], numPoints |-> n,
                            bidirectional |-> bidirectional])
    IN  [i \in 1..Len(all) |-> all[i] \div Resolution]

HallNext ==
    \/ StartOuter
    \/ OuterPrologue
    \/ ValidateField
    \/ OuterCommand
    \/ SettlePoll
    \/ PostSettleDelay
    \/ OuterMeasure
    \/ OuterCleanup

\* run_hall_sweep on a station with magnet and lock-in, or with magnet,
\* current source and nanovoltmeter
HallInit ==
    /\ InitCommon
    /\ opc = "start"
    /\ \E mode \in {"lockin", "dc"}, axis \in {"x", "y", "z"}, r \in HallRanges,
          n \in 1..MaxOuter, b \in BOOLEAN :
            call = [cls |-> "HallMeasurement",
                    params |-> CHOOSE p \in SweepParams("IVMeasurement") : TRUE,
                    channel |-> "a", dut |-> CHOOSE d \in DUTs : d.g = 1 /\ d.x = 1,
                    outer |-> HallFieldPoints(r, n, b), mode |-> mode, axis |-> axis,
                    loop |-> 1, wait |-> TRUE, fieldLimit |-> field_limit,
                    station |-> Instruments]

HallSpec == HallInit /\ [][HallNext]_vars

\* sweep descriptors handed to the point generator
SequenceParams ==
    {[start |-> a, stop |-> b, numPoints |-> n, bidirectional |-> bi,
      currentRange |-> 0, averages |-> 1, acAmplitude |-> 1] :
        a \in -2..2, b \in -2..2, n \in 1..MaxSeqPoints, bi \in BOOLEAN}

\* the head of run_sweep: linspace and the optional reverse pass
GeneratePoints ==
    /\ opc = "linspace"
    /\ points' = SweepPoints(call.params)
    /\ opc' = "generated"
    /\ UNCHANGED <<call, waitResult, monVars, verdict, sweepVars, output, level, log, oidx, oip, polls, allData, oerr,
                   outerInst>>

PointsInit ==
    /\ InitCommon
    /\ opc = "linspace"
    /\ \E p \in SequenceParams :
        call = [cls |-> "IVMeasurement", params |-> p,
                channel |-> "a", dut |-> CHOOSE d \in DUTs : d.g = 1 /\ d.x = 1,
                outer |-> <<>>, mode |-> "none", loop |-> 1, wait |-> TRUE,
                fieldLimit |-> field_limit, station |-> Instruments]

PointsNext == GeneratePoints

\* targets handed to wait_for_temperature (units of 10 mK)
WaitTargets == {0, 1, 4, 6}

WaitNext ==
    \/ StartOuter
    \/ OuterCommand
    \/ SettlePoll

\* one call of wait_for_temperature or of wait_for_ramp_completion
WaitInit ==
    /\ InitCommon
    /\ opc = "start"
    /\ \E cls \in WaitCalls, loop \in {1, 2}, target \in WaitTargets :
        call = [cls |-> cls,
                params |-> CHOOSE p \in SweepParams("IVMeasurement") : TRUE,
                channel |-> "a", dut |-> CHOOSE d \in DUTs : d.g = 1 /\ d.x = 1,
                outer |-> <<IF cls = "wait_for_temperature" THEN target ELSE 0>>,
                mode |-> "none",
                loop |-> IF cls = "wait_for_temperature" THEN loop ELSE 1,
                wait |-> TRUE, fieldLimit |-> field_limit, station |-> Instruments]

WaitSpec == WaitInit /\ [][WaitNext]_vars

PointsSpec == PointsInit /\ [][PointsNext]_vars

(***************************************************************************)
(* RealTimeMonitoring: start_monitoring, monitor_loop, stop_monitoring,    *)
(* get_current_data                                                        *)
(***************************************************************************)
\* instruments TransportMeasurement.__init__ may have chosen
MonitorModes == {"lockin", "dc", "smu"}

\* hasattr(self.transport, 'current_source')
HasCurrentSource == call.mode = "dc"

Idle == [at |-> "idle", cb |-> FALSE, temp |-> <<>>]

MEvent(e, op, res, data, flag) ==
    [e |-> e, op |-> op, res |-> res, data |-> data, flag |-> flag]

\* calls made on the monitor so far
MonitorCalls == Cardinality({i \in 1..Len(mhist) : mhist[i].e = "call"})

\* monitoring sessions opened so far: start_monitoring calls that went ahead
Sessions ==
    Cardinality({i \in 1..Len(mhist) :
        mhist[i].e = "call" /\ mhist[i].op = "start_monitoring" /\ ~mhist[i].flag})

RECURSIVE Produced(_)
Produced(ts) == IF ts = <<>> THEN 0 ELSE Head(ts).n + Produced(Tail(ts))

\* a start_monitoring that never finds the monitor running
NeverRunning(flag) == FALSE

\* the guard of start_monitoring
AlreadyRunning(flag) == flag

\* start_monitoring: guard, flag, then the configuration of the source
StartMonitoring ==
    /\ mpc.at = "idle"
    /\ MonitorCalls < MaxMonitorCalls
    /\ \E cb \in BOOLEAN :
        IF AlreadyRunning(monitoring)
        THEN /\ mhist' = mhist \o
                    << MEvent("call", "start_monitoring", "", <<>>, monitoring),
                       MEvent("return", "start_monitoring", "None", <<>>, TRUE) >>
             /\ UNCHANGED <<monitoring, mpc>>
        ELSE /\ monitoring' = TRUE
             /\ mhist' = Append(mhist,
                    MEvent("call", "start_monitoring", "", <<>>, monitoring))
             /\ mpc' = [at |-> IF HasCurrentSource THEN "start_current"
                               ELSE "start_thread",
                        cb |-> cb, temp |-> <<>>]
    /\ UNCHANGED <<call, points, waitResult, verdict, data_queue, monitor_thread, threads,
                   sweepVars, output, level, log, outerVars, outerInst>>

\* the two writes configuring the current source; either may raise, which
\* leaves start_monitoring with the flag set and no thread
StartConfigure ==
    /\ mpc.at \in {"start_current", "start_output"}
    /\ \E ok \in BOOLEAN :
        LET cmd == IF mpc.at = "start_current" THEN "current" ELSE "output_on"
            w == MEvent("write", "start_monitoring", cmd, <<>>, ok)
        IN  IF ok
            THEN /\ mhist' = Append(mhist, w)
                 /\ mpc' = [mpc EXCEPT !.at = IF mpc.at = "start_current"
                                              THEN "start_output"
                                              ELSE "start_thread"]
                 /\ level' = IF cmd = "current"
                             THEN [level EXCEPT !["cs"] = 1] ELSE level
                 /\ output' = IF cmd = "output_on"
                              THEN [output EXCEPT !["cs"] = TRUE] ELSE output
            ELSE /\ mhist' = mhist \o
                        << w, MEvent("raise", "start_monitoring",
                                     "HardwareCommunicationError", <<>>, FALSE) >>
                 /\ mpc' = Idle
                 /\ UNCHANGED <<level, output>>
    /\ UNCHANGED <<call, points, waitResult, verdict, monitoring, data_queue, monitor_thread,
                   threads, sweepVars, log, outerVars, outerInst>>

\* threading.Thread(target=monitor_loop); start()
StartThread ==
    /\ mpc.at = "start_thread"
    /\ threads' = Append(threads,
            [pc |-> "check", session |-> Sessions, cb |-> mpc.cb, n |-> 0,
             called |-> 0, abandoned |-> FALSE, last |-> "none"])
    /\ monitor_thread' = Len(threads) + 1
    /\ mhist' = mhist \o
            << MEvent("spawn", "start_monitoring", "thread", <<>>, TRUE),
               MEvent("return", "start_monitoring", "None", <<>>, TRUE) >>
    /\ mpc' = Idle
    /\ UNCHANGED <<call, points, waitResult, verdict, monitoring, data_queue,
                   sweepVars, output, level, log, outerVars, outerInst>>

\* monitor_loop: while self.monitoring
WorkerCheck ==
    \E w \in 1..Len(threads) :
        /\ threads[w].pc = "check"
        /\ threads' = [threads EXCEPT ![w].pc =
                            IF monitoring THEN "measure" ELSE "done"]
        /\ UNCHANGED <<call, points, waitResult, verdict, monitoring, data_queue,
                       monitor_thread, mpc, mhist,
                       sweepVars, output, level, log, outerVars, outerInst>>

\* source level after measure_resistance has run its first operation: the
\* SMU path writes the measurement current to channel a on every call
AfterMeasureWrite ==
    IF call.mode = "smu" THEN [level EXCEPT !["smua"] = 1] ELSE level

\* a loop that an exception ends
ErrorEndsLoop == "done"

\* where the loop goes after `except Exception`: print, sleep, next iteration
AfterIterationError == "sleep"

\* monitor_loop: one measurement, queued and handed to the callback; the
\* measurement or the callback may raise, which is caught and printed
WorkerMeasure ==
    \E w \in 1..Len(threads) :
        /\ threads[w].pc = "measure"
        /\ \/ /\ Produced(threads) < MaxSamples
              /\ data_queue' = Append(data_queue,
                    [w |-> w, session |-> threads[w].session,
                     n |-> threads[w].n + 1, late |-> threads[w].abandoned])
              /\ level' = AfterMeasureWrite
              /\ \E raised \in IF threads[w].cb THEN BOOLEAN ELSE {FALSE} :
                    threads' = [threads EXCEPT
                        ![w].pc = IF raised THEN AfterIterationError ELSE "sleep",
                        ![w].n = @ + 1,
                        ![w].called = IF threads[w].cb THEN @ + 1 ELSE @,
                        ![w].last = IF raised THEN "callback_error" ELSE "ok"]
           \/ /\ threads' = [threads EXCEPT ![w].pc = AfterIterationError,
                                            ![w].last = "measure_error"]
              /\ level' \in {level, AfterMeasureWrite}
              /\ UNCHANGED data_queue
        /\ UNCHANGED <<call, points, waitResult, verdict, monitoring, monitor_thread, mpc,
                       mhist, sweepVars, output, log, outerVars, outerInst>>

\* monitor_loop: time.sleep(measurement_interval) is over
WorkerWake ==
    \E w \in 1..Len(threads) :
        /\ threads[w].pc = "sleep"
        /\ threads' = [threads EXCEPT ![w].pc = "check"]
        /\ UNCHANGED <<call, points, waitResult, verdict, monitoring, data_queue,
                       monitor_thread, mpc, mhist,
                       sweepVars, output, level, log, outerVars, outerInst>>

\* stop_monitoring: guard and flag
StopMonitoring ==
    /\ mpc.at = "idle"
    /\ MonitorCalls < MaxMonitorCalls
    /\ IF ~monitoring
       THEN /\ mhist' = mhist \o
                    << MEvent("call", "stop_monitoring", "", <<>>, monitoring),
                       MEvent("return", "stop_monitoring", "list", <<>>, TRUE) >>
            /\ UNCHANGED <<monitoring, mpc>>
       ELSE /\ monitoring' = FALSE
            /\ mhist' = Append(mhist,
                    MEvent("call", "stop_monitoring", "", <<>>, monitoring))
            /\ mpc' = [Idle EXCEPT !.at =
                        IF monitor_thread # 0 THEN "stop_join"
                        ELSE IF HasCurrentSource THEN "stop_off"
                        ELSE "stop_drain"]
    /\ UNCHANGED <<call, points, waitResult, verdict, data_queue, monitor_thread, threads,
                   sweepVars, output, level, log, outerVars, outerInst>>

\* stop_monitoring: self.monitor_thread.join(timeout=5.0) ends because the
\* thread has finished, or because five seconds have passed while the
\* worker sleeps or measures
StopJoin ==
    /\ mpc.at = "stop_join"
    /\ \/ /\ threads[monitor_thread].pc = "done"
          /\ mhist' = Append(mhist,
                MEvent("join", "stop_monitoring", "finished", <<>>, TRUE))
          /\ UNCHANGED threads
       \/ /\ threads[monitor_thread].pc \in {"measure", "sleep"}
          /\ mhist' = Append(mhist,
                MEvent("join", "stop_monitoring", "timeout", <<>>, FALSE))
          /\ threads' = [threads EXCEPT ![monitor_thread].abandoned = TRUE]
    /\ mpc' = [mpc EXCEPT !.at = IF HasCurrentSource THEN "stop_off"
                                 ELSE "stop_drain"]
    /\ UNCHANGED <<call, points, waitResult, verdict, monitoring, data_queue, monitor_thread,
                   sweepVars, output, level, log, outerVars, outerInst>>

\* stop_monitoring: output('OFF'), current(0.0); either may raise
StopCleanup ==
    /\ mpc.at \in {"stop_off", "stop_zero"}
    /\ \E ok \in BOOLEAN :
        LET cmd == IF mpc.at = "stop_off" THEN "output_off" ELSE "zero"
            w == MEvent("write", "stop_monitoring", cmd, <<>>, ok)
        IN  IF ok
            THEN /\ mhist' = Append(mhist, w)
                 /\ mpc' = [mpc EXCEPT !.at = IF mpc.at = "stop_off"
                                              THEN "stop_zero" ELSE "stop_drain"]
                 /\ output' = IF cmd = "output_off"
                              THEN [output EXCEPT !["cs"] = FALSE] ELSE output
                 /\ level' = IF cmd = "zero"
                             THEN [level EXCEPT !["cs"] = 0] ELSE level
            ELSE /\ mhist' = mhist \o
                        << w, MEvent("raise", "stop_monitoring",
                                     "HardwareCommunicationError", <<>>, FALSE) >>
                 /\ mpc' = Idle
                 /\ UNCHANGED <<level, output>>
    /\ UNCHANGED <<call, points, waitResult, verdict, monitoring, data_queue, monitor_thread,
                   threads, sweepVars, log, outerVars, outerInst>>

\* stop_monitoring: empty the queue and return what it held
StopDrain ==
    /\ mpc.at = "stop_drain"
    /\ mhist' = Append(mhist,
            MEvent("return", "stop_monitoring", "list", data_queue, TRUE))
    /\ data_queue' = <<>>
    /\ mpc' = Idle
    /\ UNCHANGED <<call, points, waitResult, verdict, monitoring, monitor_thread, threads,
                   sweepVars, output, level, log, outerVars, outerInst>>

\* get_current_data: move the queue into the temporary queue
GetCurrentData ==
    /\ mpc.at = "idle"
    /\ MonitorCalls < MaxMonitorCalls
    /\ mhist' = Append(mhist,
            MEvent("call", "get_current_data", "", <<>>, monitoring))
    /\ mpc' = [Idle EXCEPT !.at = "get_requeue", !.temp = data_queue]
    /\ data_queue' = <<>>
    /\ UNCHANGED <<call, points, waitResult, verdict, monitoring, monitor_thread, threads,
                   sweepVars, output, level, log, outerVars, outerInst>>

\* get_current_data: put the data back behind whatever the workers have
\* queued in the meantime, and return it
GetRequeue ==
    /\ mpc.at = "get_requeue"
    /\ data_queue' = data_queue \o mpc.temp
    /\ mhist' = Append(mhist,
            MEvent("return", "get_current_data", "list", mpc.temp, TRUE))
    /\ mpc' = Idle
    /\ UNCHANGED <<call, points, waitResult, verdict, monitoring, monitor_thread, threads,
                   sweepVars, output, level, log, outerVars, outerInst>>

MonitorNext ==
    \/ StartMonitoring
    \/ StartConfigure
    \/ StartThread
    \/ WorkerCheck
    \/ WorkerMeasure
    \/ WorkerWake
    \/ StopMonitoring
    \/ StopJoin
    \/ StopCleanup
    \/ StopDrain
    \/ GetCurrentData
    \/ GetRequeue

\* RealTimeMonitoring.__init__ on a station with measurement instruments
MonitorInit ==
    /\ InitCommon
    /\ opc = "none"
    /\ \E mode \in MonitorModes :
        call = [cls |-> "RealTimeMonitoring", mode |-> mode]

MonitorSpec == MonitorInit /\ [][MonitorNext]_vars

(***************************************************************************)
(* SafetyChecks with its configured limits                                 *)
(*   fields in 0.1 T, currents in 0.1 A, voltages in 100 V, temperatures in   *)
(*   10 mK, ramp rates in T/min and K/min                                  *)
(***************************************************************************)
DEFAULT_LIMITS ==
    [max_magnetic_field |-> max_magnetic_field,
     max_field_ramp_rate |-> max_field_ramp_rate,
     max_current |-> max_current,
     max_voltage |-> max_voltage,
     max_temperature |-> max_temperature,
     min_temperature |-> min_temperature,
     max_temperature_ramp_rate |-> max_temperature_ramp_rate]

\* limits a caller may pass as custom_limits
CustomLimits ==
    { [max_magnetic_field |-> 50, max_field_ramp_rate |-> 2,
       max_current |-> 2, max_voltage |-> 1, max_temperature |-> 30000,
       min_temperature |-> 2, max_temperature_ramp_rate |-> 1] }

\* SafetyChecks.__init__: the defaults, updated with the custom limits
ConfiguredLimits == {DEFAULT_LIMITS} \cup CustomLimits

\* np.sqrt(s) > limit for an exact sum of squares s and a limit >= 0
SqrtExceeds(s, limit) == s > limit * limit

\* a field check that turns away the limit itself
check_magnetic_field_below(self, field_x, field_y, field_z) ==
    ~(field_x * field_x + field_y * field_y + field_z * field_z
        >= self.max_magnetic_field * self.max_magnetic_field)

SafetyChecks_check_magnetic_field(self, field_x, field_y, field_z) ==
    ~SqrtExceeds(field_x * field_x + field_y * field_y + field_z * field_z,
                 self.max_magnetic_field)

SafetyChecks_check_field_ramp_rate(self, ramp_rate) ==
    ~(ramp_rate > self.max_field_ramp_rate)

\* a current check that compares the signed value
check_current_signed(self, current) == ~(current > self.max_current)

SafetyChecks_check_current(self, current) ==
    ~(Abs(current) > self.max_current)

SafetyChecks_check_voltage(self, voltage) ==
    ~(Abs(voltage) > self.max_voltage)

\* a temperature check without the lower bound
check_temperature_upper(self, temperature) ==
    ~(temperature > self.max_temperature)

SafetyChecks_check_temperature(self, temperature) ==
    IF temperature > self.max_temperature THEN FALSE
    ELSE IF temperature < self.min_temperature THEN FALSE
    ELSE TRUE

SafetyChecks_check_temperature_ramp_rate(self, ramp_rate) ==
    ~(ramp_rate > self.max_temperature_ramp_rate)

\* a range of the descriptor: <<>> when the key is absent, else <<min, max>>
Present(range) == range # <<>>

\* a sweep check that looks at the first endpoint of each range only
check_sweep_parameters_first(self, d) ==
    /\ Present(d.current_range) => SafetyChecks_check_current(self, d.current_range[1])
    /\ Present(d.voltage_range) => SafetyChecks_check_voltage(self, d.voltage_range[1])
    /\ Present(d.field_range) =>
            SafetyChecks_check_magnetic_field(self, d.field_range[2], 0, 0)
    /\ Present(d.temperature_range) =>
            SafetyChecks_check_temperature(self, d.temperature_range[1])

SafetyChecks_check_sweep_parameters(self, d) ==
    LET safe0 == TRUE
        safe1 == IF Present(d.current_range)
                    /\ ~(SafetyChecks_check_current(self, d.current_range[1])
                         /\ SafetyChecks_check_current(self, d.current_range[2]))
                 THEN FALSE ELSE safe0
        safe2 == IF Present(d.voltage_range)
                    /\ ~(SafetyChecks_check_voltage(self, d.voltage_range[1])
                         /\ SafetyChecks_check_voltage(self, d.voltage_range[2]))
                 THEN FALSE ELSE safe1
        safe3 == IF Present(d.field_range)
                    /\ ~(SafetyChecks_check_magnetic_field(self, d.field_range[2], 0, 0)
                         /\ SafetyChecks_check_magnetic_field(self, d.field_range[1], 0, 0))
                 THEN FALSE ELSE safe2
        safe4 == IF Present(d.temperature_range)
                    /\ ~(SafetyChecks_check_temperature(self, d.temperature_range[1])
                         /\ SafetyChecks_check_temperature(self, d.temperature_range[2]))
                 THEN FALSE ELSE safe3
    IN  safe4

\* Python's bool, as returned
Bool(b) == IF b THEN "True" ELSE "False"

\* arguments of the checks
FieldComponents == {-72, 0, 30, 40, 54, 90, 91}
ScalarValues == {-6, -2, -1, 0, 1, 2, 3, 5, 6}
TemperatureValues == {0, 1, 2, 100, 30000, 30001, 40000, 40001}
CurrentRanges == {<<>>, <<-1, 1>>, <<0, 3>>, <<-3, 0>>}
VoltageRanges == {<<>>, <<-1, 1>>, <<-3, 1>>}
FieldRanges == {<<>>, <<-50, 50>>, <<0, 91>>, <<-91, 0>>}
TemperatureRanges == {<<>>, <<1, 100>>, <<0, 100>>, <<2, 40001>>}

SweepDescriptors ==
    [current_range : CurrentRanges, voltage_range : VoltageRanges,
     field_range : FieldRanges, temperature_range : TemperatureRanges]

ScalarChecks ==
    {"check_field_ramp_rate", "check_current", "check_voltage",
     "check_temperature", "check_temperature_ramp_rate"}

SafetyCall(fn, limits, args) ==
    [cls |-> "SafetyChecks", fn |-> fn, limits |-> limits, args |-> args]

\* a call of a check returns its verdict
Returns(b) ==
    /\ verdict' = Bool(b)
    /\ opc' = "returned"
    /\ UNCHANGED <<call, points, waitResult, monVars, sweepVars, output, level, log,
                   oidx, oip, polls, allData, oerr, outerInst>>

CheckMagneticField ==
    /\ opc = "call"
    /\ call.fn = "check_magnetic_field"
    /\ Returns(SafetyChecks_check_magnetic_field(call.limits, call.args[1],
                                                 call.args[2], call.args[3]))

CheckFieldRampRate ==
    /\ opc = "call"
    /\ call.fn = "check_field_ramp_rate"
    /\ Returns(SafetyChecks_check_field_ramp_rate(call.limits, call.args[1]))

CheckCurrent ==
    /\ opc = "call"
    /\ call.fn = "check_current"
    /\ Returns(SafetyChecks_check_current(call.limits, call.args[1]))

CheckVoltage ==
    /\ opc = "call"
    /\ call.fn = "check_voltage"
    /\ Returns(SafetyChecks_check_voltage(call.limits, call.args[1]))

CheckTemperature ==
    /\ opc = "call"
    /\ call.fn = "check_temperature"
    /\ Returns(SafetyChecks_check_temperature(call.limits, call.args[1]))

CheckTemperatureRampRate ==
    /\ opc = "call"
    /\ call.fn = "check_temperature_ramp_rate"
    /\ Returns(SafetyChecks_check_temperature_ramp_rate(call.limits, call.args[1]))

CheckSweepParameters ==
    /\ opc = "call"
    /\ call.fn = "check_sweep_parameters"
    /\ Returns(SafetyChecks_check_sweep_parameters(call.limits, call.args[1]))

SafetyNext ==
    \/ CheckMagneticField
    \/ CheckFieldRampRate
    \/ CheckCurrent
    \/ CheckVoltage
    \/ CheckTemperature
    \/ CheckTemperatureRampRate
    \/ CheckSweepParameters

SafetyInit ==
    /\ InitCommon
    /\ opc = "call"
    /\ \E limits \in ConfiguredLimits :
        \/ \E fx, fy, fz \in FieldComponents :
                call = SafetyCall("check_magnetic_field", limits, <<fx, fy, fz>>)
        \/ \E fn \in ScalarChecks :
            \E v \in IF fn = "check_temperature" THEN TemperatureValues
                     ELSE ScalarValues :
                call = SafetyCall(fn, limits, <<v>>)
        \/ \E d \in SweepDescriptors :
                call = SafetyCall("check_sweep_parameters", limits, <<d>>)

SafetySpec == SafetyInit /\ [][SafetyNext]_vars

(***************************************************************************)
(* SafetyChecks.validate_measurement_sequence                              *)
(* setpoints: <<>> when the key is absent, else <<value>>; field setpoints *)
(* in units of 0.1 T, temperature setpoints in units of 10 mK              *)
(***************************************************************************)
MaxSequence == 2

\* "Large field jump": more than 1.0 T; "Large temperature jump": more than 10.0 K
large_field_change == 10
large_temperature_change == 1000

Warning(kind, pos, change) == [kind |-> kind, pos |-> pos, change |-> change]

\* abs(measurement[key] - prev_measurement[key]) when both hold the key
SetpointChange(now, prev) ==
    IF Present(now) /\ Present(prev) THEN Abs(now[1] - prev[1]) ELSE 0

\* the warnings iteration i of the loop appends (i counts from 1), in order
IterationWarnings(self, sequence, i) ==
    (IF ~SafetyChecks_check_sweep_parameters(self, sequence[i])
     THEN <<Warning("unsafe", i, 0)>> ELSE <<>>)
    \o (IF i > 1 /\ SetpointChange(sequence[i].field_setpoint,
                                    sequence[i - 1].field_setpoint) > large_field_change
        THEN <<Warning("field", i,
                       SetpointChange(sequence[i].field_setpoint,
                                      sequence[i - 1].field_setpoint))>>
        ELSE <<>>)
    \o (IF i > 1 /\ SetpointChange(sequence[i].temperature_setpoint,
                                    sequence[i - 1].temperature_setpoint)
                        > large_temperature_change
        THEN <<Warning("temperature", i,
                       SetpointChange(sequence[i].temperature_setpoint,
                                      sequence[i - 1].temperature_setpoint))>>
        ELSE <<>>)

\* a validation in which every warning makes the sequence unsafe
SafeOnlyWithoutWarnings(self, sequence, i, is_safe) ==
    is_safe /\ IterationWarnings(self, sequence, i) = <<>>

\* is_safe after iteration i: "if not self.check_sweep_parameters(measurement):
\* is_safe = False"
SafeAfterIteration(self, sequence, i, is_safe) ==
    IF ~SafetyChecks_check_sweep_parameters(self, sequence[i]) THEN FALSE ELSE is_safe

\* the loop of validate_measurement_sequence from iteration i on, and the
\* tuple it returns
RECURSIVE SafetyChecks_validate_measurement_sequence(_, _, _, _, _)
SafetyChecks_validate_measurement_sequence(self, sequence, i, is_safe, warnings_list) ==
    IF i > Len(sequence)
    THEN [is_safe |-> is_safe, warnings |-> warnings_list]
    ELSE SafetyChecks_validate_measurement_sequence(self, sequence, i + 1,
            SafeAfterIteration(self, sequence, i, is_safe),
            warnings_list \o IterationWarnings(self, sequence, i))

\* measurement dictionaries of a sequence
FieldSetpoints == {<<>>, <<0>>, <<10>>, <<-10>>}
TemperatureSetpoints == {<<>>, <<0>>, <<1000>>, <<2500>>}

Measurements ==
    [current_range : {<<>>, <<-1, 1>>, <<0, 3>>}, voltage_range : {<<>>},
     field_range : {<<>>}, temperature_range : {<<>>},
     field_setpoint : FieldSetpoints, temperature_setpoint : TemperatureSetpoints]

MeasurementSequences == UNION {[1..n -> Measurements] : n \in 0..MaxSequence}

ValidateSequence ==
    /\ opc = "call"
    /\ call.fn = "validate_measurement_sequence"
    /\ verdict' = SafetyChecks_validate_measurement_sequence(
                        call.limits, call.args[1], 1, TRUE, <<>>)
    /\ opc' = "returned"
    /\ UNCHANGED <<call, points, waitResult, monVars, sweepVars, output, level, log,
                   oidx, oip, polls, allData, oerr, outerInst>>

SequenceNext == ValidateSequence

SequenceInit ==
    /\ InitCommon
    /\ opc = "call"
    /\ \E limits \in ConfiguredLimits, sequence \in MeasurementSequences :
            call = SafetyCall("validate_measurement_sequence", limits, <<sequence>>)

SequenceSpec == SequenceInit /\ [][SequenceNext]_vars

(***************************************************************************)
(* Properties of the sweep engine                                          *)
(***************************************************************************)
Exited == phase \in {"returned", "raised"}

\* the operations of the sweep under way (of the current outer point)
SweepLog == SelectSeq(log, LAMBDA e : e.o = oidx /\ e.ph \in {"prologue", "body", "cleanup"})

Count(s, P(_)) == Len(SelectSeq(s, P))

\* channels the engine sources
SourceChannels == {op.dev : op \in {CleanupOps(EngineCall)[i] : i \in 1..Len(CleanupOps(EngineCall))}}

\* positions of the failed operations of the per-point loop
BodyFailures == {i \in 1..Len(SweepLog) : SweepLog[i].ph = "body" /\ ~SweepLog[i].ok}

\* C1: once the source output has been enabled, every enabled output is
\* disabled when the sweep call returns or raises, on every exit path
C1_OutputDisabledOnExit ==
    Exited => \A ch \in Channels : ~output[ch]

\* C2: when a read or write raises at sweep point k inside the loop, no
\* setpoint of a later point is written, nothing is retried, the setpoint is
\* written to zero exactly once, the output is then disabled exactly once,
\* and the same error propagates to the caller
C2_LoopErrorAbortsZeroesDisables ==
    (Exited /\ BodyFailures # {}) =>
        \A i \in BodyFailures :
            /\ phase = "raised"
            /\ err = HwErr("body", SweepLog[i].pt, oidx)
            /\ \A j \in (i + 1)..Len(SweepLog) : SweepLog[j].ph = "cleanup"
            /\ \A ch \in SourceChannels :
                /\ Count(SweepLog, LAMBDA e : e.t = "zero" /\ e.dev = ch /\ e.ok) = 1
                /\ Count(SweepLog, LAMBDA e : e.t = "disable" /\ e.dev = ch /\ e.ok) = 1

\* sweep points whose setpoint write and all readings succeeded
CompletePoints ==
    {k \in 1..Len(Points) :
        Count(SweepLog, LAMBDA e : e.ph = "body" /\ e.pt = k /\ e.ok)
            = Len(BodyOps(EngineCall))}

\* C3: at every moment of a sweep all recorded channels have the same
\* length, the number of sweep points whose setpoint write and all readings
\* succeeded; the point at which a read or write failed adds no entry
C3_ChannelsSameLength ==
    phase # "idle" =>
        \A ch \in DOMAIN results : Len(results[ch]) = Cardinality(CompletePoints)

\* a sweep failed at a point after the first and has left the loop
C3_Witness ==
    /\ phase = "raised"
    /\ \E i \in BodyFailures : SweepLog[i].pt >= 2
    /\ \A ch \in DOMAIN results : Len(results[ch]) = idx - 1
    /\ idx >= 2

\* C4: a sweep whose start or stop setpoint fails the safety checker issues
\* no instrument write: no configuration, no output enable, no setpoint
C4_UnsafeSweepWritesNothing ==
    ~check_sweep_parameters(EngineCall.cls, call.params) =>
        \A i \in 1..Len(SweepLog) :
            ~(SweepLog[i].ok /\ SweepLog[i].t \in {"config", "enable", "set"})

(***************************************************************************)
(* Properties of the nested sweeps                                         *)
(***************************************************************************)
OuterPoints == 1..Len(call.outer)

\* the reading of poll e is 'HOLDING', or within tolerance of the setpoint
WithinTolerance(e) ==
    IF e.dev = "magnet" THEN e.val = "HOLDING"
    ELSE /\ e.val - call.outer[e.o] <= temperature_tolerance
         /\ call.outer[e.o] - e.val <= temperature_tolerance

\* answered polls at outer point o whose reading was out of tolerance
UnsettledPolls(o) ==
    Count(log, LAMBDA e : /\ e.ph = "outer" /\ e.t = "poll" /\ e.ok /\ e.o = o
                          /\ ~WithinTolerance(e))

\* the settling wait at outer point o has used up its timeout
TimedOutAt(o) == UnsettledPolls(o) = MaxPolls

\* the post-settling delay at outer point o has been slept
DelayedAt(o) == \E i \in 1..Len(log) : log[i].ph = "outer" /\ log[i].t = "delay" /\ log[i].o = o

\* the measurement at outer point o (inner sweep, or temperature readback
\* and measure_resistance) has issued its first instrument operation
MeasuredAt(o) ==
    \E i \in 1..Len(log) :
        /\ log[i].o = o
        /\ \/ log[i].ph \in {"prologue", "body", "cleanup"}
           \/ log[i].ph = "outer" /\ log[i].t = "get"

\* the result of outer point o has been stored
StoredAt(o) == \E i \in 1..Len(allData) : allData[i].o = o

\* C5: in IVFieldSweep.run_field_sweep and STSMeasurement.run_field_sweep a
\* timeout of the magnet settling wait at a field point is not fatal: no
\* TimeoutError leaves the orchestrator, and the post-settling delay and the
\* inner sweep at that point follow the timeout.
C5_MagnetTimeoutNonFatal ==
    call.cls \in {"IVFieldSweep", "STSMeasurement"} =>
        \A o \in OuterPoints :
            TimedOutAt(o) =>
                /\ oerr.kind # "TimeoutError"
                /\ (oidx = o /\ opc = "delay") \/ DelayedAt(o)

\* C6: in IVTemperatureSweep.run_temperature_sweep and
\* TemperatureResistanceSweep.run_temperature_sweep a timeout of the
\* temperature settling wait at a temperature point is not fatal: no
\* TimeoutError leaves the orchestrator, the post-settling delay and the
\* measurement at that point follow the timeout, and a sweep that returns has
\* delayed, measured and stored every temperature point.
C6_TemperatureTimeoutNonFatal ==
    call.cls \in TemperatureClasses =>
        /\ oerr.kind # "TimeoutError"
        /\ \A o \in OuterPoints :
            TimedOutAt(o) =>
                /\ (oidx = o /\ opc = "delay") \/ DelayedAt(o)
                /\ DelayedAt(o) =>
                    \/ oidx = o /\ opc \in {"inner", "measure"}
                    \/ MeasuredAt(o)
                /\ opc = "returned" =>
                    /\ Len(allData) = Len(call.outer)
                    /\ \A q \in OuterPoints : DelayedAt(q) /\ MeasuredAt(q) /\ StoredAt(q)

\* a temperature sweep over two points has returned although the settling
\* wait at its first point timed out
C6_Witness ==
    /\ call.cls \in TemperatureClasses
    /\ Len(call.outer) = 2
    /\ TimedOutAt(1)
    /\ opc = "returned"
    /\ StoredAt(1) /\ StoredAt(2)

\* number of times the finally block of the inner sweep at the current outer
\* point has been entered
CleanupEntries ==
    Count(SweepLog, LAMBDA e : /\ e.ph = "cleanup"
                               /\ e.t = CleanupOps(EngineCall)[1].t
                               /\ e.dev = CleanupOps(EngineCall)[1].dev)

\* an instrument operation of the inner sweep at outer point o has raised
InnerFailedAt(o) ==
    \E i \in 1..Len(log) :
        log[i].o = o /\ ~log[i].ok /\ log[i].ph \in {"prologue", "body", "cleanup"}

\* the failure of the inner sweep at outer point o ends the orchestration at
\* that point: the sweep unwinds and its exception leaves the orchestrator
InnerErrorEndsRun(o) ==
    /\ oidx = o
    /\ \A i \in 1..Len(log) : log[i].o <= o
    /\ log[Len(log)].ph \in {"prologue", "body", "cleanup"}
    /\ \/ opc = "inner" /\ phase \in {"cleanup", "raised"}
       \/ /\ opc = "raised"
          /\ phase = "raised"
          /\ oerr = err
          /\ err.kind = "HardwareCommunicationError"

RequiredController(cls) ==
    IF cls = "IVTemperatureSweep" THEN "temperature_controller" ELSE "magnet"

\* configuration writes issued to instruments during construction
ConstructorWrites == {i \in 1..Len(log) : log[i].ph = "init"}

\* C8: constructing IVFieldSweep, IVTemperatureSweep or STSMeasurement on a
\* station that lacks the required magnet or temperature controller raises the
\* configuration error, and no instrument write is issued before it.
C8_MissingControllerRaisesBeforeWrites ==
    (/\ call.cls \in {"IVFieldSweep", "IVTemperatureSweep", "STSMeasurement"}
     /\ RequiredController(call.cls) \notin call.station) =>
        /\ opc # "constructed"
        /\ ConstructorWrites = {}
        /\ opc = "raised" => oerr.kind = "RuntimeError"

\* C9: constructing HallMeasurement on a station without a magnet controller
\* raises the configuration error whatever other instruments are present, and
\* run_hall_sweep is never entered without a magnet.
C9_HallWithoutMagnetRaises ==
    (call.cls = "HallMeasurement" /\ "magnet" \notin call.station) =>
        /\ opc = "construct" => oip = 1
        /\ opc # "construct" => opc = "raised" /\ oerr.kind = "RuntimeError"

(***************************************************************************)
(* Properties of the magnet controller                                     *)
(***************************************************************************)
\* the magnitude the caller asks for is above field_limit
AboveLimit(c, pt) ==
    IF c.cls = "set_field_polar" THEN pt[1] > c.fieldLimit
    ELSE pt[1] * pt[1] + pt[2] * pt[2] > c.fieldLimit * c.fieldLimit

\* call o of the sequence has passed its magnitude check or has raised
Decided(o) == o < oidx \/ (o = oidx /\ opc # "validate")

\* call o of the sequence has ended without an exception
Completed(o) == o < oidx \/ (o = oidx /\ opc = "returned")

\* successful writes of call o
WritesOf(o) == {i \in 1..Len(log) : log[i].o = o /\ log[i].ok /\ log[i].t \in {"field_x", "field_y", "ramp"}}

\* C10: set_field_vector and set_field_polar called with a magnitude above
\* field_limit raise ValueError before field_x, field_y or RAMP is written; a
\* setpoint whose magnitude is within the limit raises no ValueError and, when
\* the call ends, has been written to field_x and field_y and ramped.
C10_FieldLimitEnforcedBeforeWrites ==
    call.cls \in MagnetCalls =>
        \A o \in OuterPoints :
            Decided(o) =>
                IF AboveLimit(call, call.outer[o])
                THEN /\ oidx = o
                     /\ opc = "raised"
                     /\ oerr.kind = "ValueError"
                     /\ \A i \in 1..Len(log) : log[i].o # o
                ELSE /\ ~(oidx = o /\ oerr.kind = "ValueError")
                     /\ Completed(o) =>
                            LET f == FieldTarget(call, call.outer[o])
                            IN /\ \E i \in WritesOf(o) : log[i].t = "field_x" /\ log[i].val = f[1]
                               /\ \E i \in WritesOf(o) : log[i].t = "field_y" /\ log[i].val = f[2]
                               /\ \E i \in WritesOf(o) : log[i].t = "ramp"

(***************************************************************************)
(* Properties of the point generator                                       *)
(***************************************************************************)
\* C11: with bidirectional = true the generated sequence has length
\* 2 x numPoints and is the forward sequence followed by its exact reverse:
\* it reads the same from both ends, the turnaround point appears twice in a
\* row and the first and the last point are equal.
C11_BidirectionalIsPalindrome ==
    (opc = "generated" /\ call.params.bidirectional) =>
        LET n == call.params.numPoints
            fwd == Linspace(call.params.start, call.params.stop, n)
        IN /\ Len(points) = 2 * n
           /\ \A i \in 1..n : points[i] = fwd[i]
           /\ \A i \in 1..(2 * n) : points[i] = points[2 * n + 1 - i]
           /\ points[n] = points[n + 1]
           /\ points[1] = points[2 * n]

\* a bidirectional sequence over at least three distinct setpoints
C11_Witness ==
    /\ opc = "generated"
    /\ call.params.bidirectional
    /\ call.params.numPoints >= 3
    /\ call.params.start # call.params.stop
    /\ Len(points) = 2 * call.params.numPoints
    /\ points[1] # points[call.params.numPoints]

\* C12: with bidirectional = false and numPoints >= 2 the sequence has
\* exactly numPoints setpoints, the first equal to start, the last equal to
\* stop, and consecutive setpoints differ by (stop - start) / (numPoints - 1).
C12_UnidirectionalEndpointsAndStep ==
    (opc = "generated" /\ ~call.params.bidirectional /\ call.params.numPoints >= 2) =>
        LET n == call.params.numPoints
        IN /\ Len(points) = n
           /\ points[1] = call.params.start * Resolution
           /\ points[n] = call.params.stop * Resolution
           /\ \A i \in 1..(n - 1) :
                (points[i + 1] - points[i]) * (n - 1)
                    = (call.params.stop - call.params.start) * Resolution

\* a unidirectional sequence with interior points between distinct endpoints
C12_Witness ==
    /\ opc = "generated"
    /\ ~call.params.bidirectional
    /\ call.params.numPoints >= 3
    /\ call.params.start # call.params.stop
    /\ Len(points) = call.params.numPoints
    /\ points[2] # points[1]

(***************************************************************************)
(* Properties of the derived quantities                                    *)
(***************************************************************************)
\* derived resistance and conductance channels of the engines
DerivedChannels ==
    {"resistance", "resistance_a", "resistance_b", "diff_conductance", "diff_resistance",
     "diff_conductance_a", "diff_conductance_b"}

\* C13: the resistance reported for a point whose current is 0 is +infinity,
\* never NaN, in the engines that compute V/I (IVMeasurement,
\* IVMeasurement2636B, DifferentialConductance), whatever the voltage.
C13_ZeroCurrentGivesPlusInfinity ==
    (/\ phase = "returned"
     /\ EngineCall.cls \in {"IVMeasurement", "IVMeasurement2636B", "DifferentialConductance"}) =>
        \A k \in 1..Len(results["current"]) :
            IsZero(results["current"][k]) => results["resistance"][k] = Inf(1)

\* C14: in the AC engines (DifferentialConductance, TwoDeviceDifferential) a
\* zero measured AC amplitude gives differential conductance 0, a zero
\* configured AC amplitude gives differential resistance +infinity, and no
\* derived conductance or resistance is ever recorded as NaN.
C14_DegenerateDivisionsResolved ==
    (phase # "idle" /\ EngineCall.cls \in {"DifferentialConductance", "TwoDeviceDifferential"}) =>
        /\ \A ch \in DerivedChannels \cap DOMAIN results :
                \A k \in 1..Len(results[ch]) : results[ch][k].tag # "nan"
        /\ EngineCall.cls = "DifferentialConductance" =>
                \A k \in 1..Len(results["diff_voltage_r"]) :
                    /\ IsZero(results["diff_voltage_r"][k]) =>
                            results["diff_conductance"][k] = Num(0)
                    /\ call.params.acAmplitude = 0 =>
                            results["diff_resistance"][k] = Inf(1)
        /\ EngineCall.cls = "TwoDeviceDifferential" =>
                \A k \in 1..Len(results["diff_voltage_x"]) :
                    (IsZero(results["diff_voltage_x"][k]) /\ IsZero(results["diff_voltage_y"][k]))
                        => results["diff_conductance_a"][k] = Num(0)

(***************************************************************************)
(* Properties of the settling waits                                        *)
(***************************************************************************)
\* answered polls of the wait
AnsweredPolls == {i \in 1..Len(log) : log[i].t = "poll" /\ log[i].ok}

\* the value a wait returns when it has settled
SuccessValue == IF call.cls = "wait_for_temperature" THEN "True" ELSE "None"

\* C15: the settling wait returns success at the first poll whose reading
\* satisfies |reading - target| <= tolerance (or reports HOLDING), with no
\* further poll or sleep and before the timeout has elapsed; it returns
\* success at no other poll.
C15_ReturnsAtFirstSettledPoll ==
    call.cls \in WaitCalls =>
        /\ \A i \in AnsweredPolls :
            WithinTolerance(log[i]) =>
                /\ i = Len(log)
                /\ opc = "returned"
                /\ waitResult = SuccessValue
                /\ UnsettledPolls(1) < MaxPolls
        /\ waitResult = SuccessValue =>
                /\ Len(log) \in AnsweredPolls
                /\ WithinTolerance(log[Len(log)])

\* wait_for_temperature with target 0 has returned True at its second poll
C15_Witness ==
    /\ call.cls = "wait_for_temperature"
    /\ call.outer[1] = 0
    /\ UnsettledPolls(1) = 1
    /\ waitResult = "True"
    /\ opc = "returned"

\* C16: when the reading never comes within tolerance, the settling wait
\* ends once the timeout has elapsed and reports the timeout as a returned
\* value, never as a raised exception, in wait_for_temperature and in
\* wait_for_ramp_completion.
C16_TimeoutIsReturnedNotRaised ==
    (call.cls \in WaitCalls /\ TimedOutAt(1)) =>
        /\ opc = "returned"
        /\ oerr = NoErr
        /\ waitResult = "False"

(***************************************************************************)
(* Properties of the real-time monitor                                     *)
(***************************************************************************)
\* worker loops that are inside an iteration or about to enter one
ActiveLoops ==
    {w \in 1..Len(threads) :
        \/ threads[w].pc \in {"measure", "sleep"}
        \/ threads[w].pc = "check" /\ monitoring}

\* C17: at every moment at most one monitor worker loop is active, across
\* any sequence of start_monitoring and stop_monitoring calls, also when
\* start_monitoring follows a stop_monitoring whose join timed out.
C17_AtMostOneWorkerLoop == Cardinality(ActiveLoops) <= 1

\* the step is a call of op made in the idle state
Calls(op) ==
    /\ mpc.at = "idle"
    /\ Len(mhist') > Len(mhist)
    /\ mhist'[Len(mhist) + 1].e = "call"
    /\ mhist'[Len(mhist) + 1].op = op

\* C18: start_monitoring called while monitoring is running starts no
\* thread, writes to no instrument, leaves worker, callback and queue as
\* they are and returns normally.
C18_StartWhileRunningIsNoOp ==
    [][ (Calls("start_monitoring") /\ monitoring) =>
            /\ Len(mhist') = Len(mhist) + 2
            /\ mhist'[Len(mhist) + 2] =
                    MEvent("return", "start_monitoring", "None", <<>>, TRUE)
            /\ UNCHANGED <<monitoring, data_queue, monitor_thread, threads, mpc,
                           output, level>> ]_vars

\* start_monitoring has been called, and has returned, while a worker with
\* a callback was running and a sample was waiting in the queue
C18_Witness ==
    /\ Len(mhist) >= 2
    /\ mhist[Len(mhist) - 1] =
            MEvent("call", "start_monitoring", "", <<>>, TRUE)
    /\ mhist[Len(mhist)].e = "return"
    /\ monitor_thread # 0
    /\ threads[monitor_thread].pc # "done"
    /\ threads[monitor_thread].cb
    /\ data_queue # <<>>

\* the step is the return of a stop_monitoring that found the monitor running
StopReturns ==
    /\ mpc.at = "stop_drain"
    /\ Len(mhist') = Len(mhist) + 1
    /\ mhist'[Len(mhist')].e = "return"

\* C19: stop_monitoring returns every sample queued since the matching
\* start_monitoring, each once and in production order, and only samples
\* of that session; the queue is empty when it returns.
C19_StopReturnsSessionSamples ==
    [][ StopReturns =>
            LET data == mhist'[Len(mhist')].data
            IN  /\ data_queue' = <<>>
                /\ \A i \in 1..Len(data) :
                        /\ data[i].session = Sessions
                        /\ \A j \in 1..Len(data) :
                                i < j => /\ data[i] # data[j]
                                         /\ data[i].w = data[j].w
                                              => data[i].n < data[j].n
                /\ \A w \in 1..Len(threads) :
                        threads[w].session = Sessions =>
                            \A k \in 1..threads[w].n :
                                \E i \in 1..Len(data) :
                                    data[i].w = w /\ data[i].n = k ]_vars

\* C20: a sample queued after the join of stop_monitoring has timed out is
\* returned neither by that stop_monitoring nor by a later get_current_data
\* or stop_monitoring.
C20_LateSamplesAreLost ==
    \A r \in 1..Len(mhist) :
        mhist[r].e = "return" =>
            \A i \in 1..Len(mhist[r].data) : ~mhist[r].data[i].late

\* the step is the return of get_current_data
GetReturns ==
    /\ mpc.at = "get_requeue"
    /\ Len(mhist') = Len(mhist) + 1
    /\ mhist'[Len(mhist')].e = "return"

\* the samples of a sequence, as a set
SamplesOf(q) == {q[i] : i \in 1..Len(q)}

\* samples of one worker stand in the order in which it produced them
InProductionOrder(q) ==
    \A i, j \in 1..Len(q) :
        (i < j /\ q[i].w = q[j].w) => q[i].n < q[j].n

\* C21: get_current_data called while the worker runs returns the buffered
\* samples and leaves the queue with the same samples in production order:
\* none lost, duplicated or moved behind a sample queued during the peek.
C21_PeekKeepsQueueOrder ==
    [][ (GetReturns /\ monitoring) =>
            /\ SamplesOf(data_queue') = SamplesOf(data_queue) \cup SamplesOf(mpc.temp)
            /\ Len(data_queue') = Cardinality(SamplesOf(data_queue'))
            /\ InProductionOrder(mhist'[Len(mhist')].data)
            /\ InProductionOrder(data_queue') ]_vars

\* index of the call event a return or raise event belongs to
CallOf(r) ==
    CHOOSE c \in 1..r :
        /\ mhist[c].e = "call"
        /\ \A d \in (c + 1)..r : mhist[d].e # "call"

\* a stop_monitoring that found the monitor running has returned, and no
\* monitoring session has been opened since
StoppedAfterRunning ==
    \E r \in 1..Len(mhist) :
        /\ mhist[r].e = "return"
        /\ mhist[r].op = "stop_monitoring"
        /\ mhist[CallOf(r)].flag
        /\ \A c \in (r + 1)..Len(mhist) :
                ~(mhist[c].e = "call" /\ mhist[c].op = "start_monitoring"
                                      /\ ~mhist[c].flag)

\* C22: once a stop_monitoring called on a running monitor has returned, the
\* source the monitor drives is off and at zero in every instrument
\* configuration, and a worker still running does not change that.
C22_StopLeavesSourceOff ==
    StoppedAfterRunning =>
        \A ch \in {"cs", "smua"} : ~output[ch] /\ level[ch] = 0

\* stop_monitoring has cleared the monitoring flag
ClearedByStop ==
    /\ ~monitoring
    /\ \E c \in 1..Len(mhist) :
        mhist[c].e = "call" /\ mhist[c].op = "stop_monitoring" /\ mhist[c].flag

\* C23: an exception of the measurement or of the callback inside a monitor
\* iteration is caught: the worker sleeps the interval and goes on with the
\* next test of the flag, and it leaves the loop only at a test made after
\* stop_monitoring has cleared the flag.
C23_IterationErrorKeepsLoopAlive ==
    [][ \A w \in 1..Len(threads) :
            /\ (threads[w].pc = "measure" /\ threads'[w].pc # "measure") =>
                    threads'[w].pc = "sleep"
            /\ (threads[w].pc = "sleep" /\ threads'[w].pc # "sleep") =>
                    threads'[w].pc = "check"
            /\ (threads[w].pc # "done" /\ threads'[w].pc = "done") =>
                    (threads[w].pc = "check" /\ ClearedByStop) ]_vars

\* a worker with a callback that has already queued a sample is measuring
\* again after an iteration in which the measurement raised
C23_Witness ==
    \E w \in 1..Len(threads) :
        /\ threads[w].last = "measure_error"
        /\ threads[w].pc = "measure"
        /\ threads[w].n >= 1
        /\ threads[w].cb

(***************************************************************************)
(* Properties of the safety checks                                         *)
(***************************************************************************)
\* the call of the named check has returned
Checked(fn) ==
    /\ call.cls = "SafetyChecks"
    /\ call.fn = fn
    /\ opc = "returned"

\* largest r with r * r <= s
FloorSqrt(s) == CHOOSE r \in 0..200 : r * r <= s /\ s < (r + 1) * (r + 1)

\* sqrt(fx^2 + fy^2 + fz^2) > limit
MagnitudeAbove(fx, fy, fz, limit) ==
    LET s == fx * fx + fy * fy + fz * fz
        r == FloorSqrt(s)
    IN  r > limit \/ (r = limit /\ r * r < s)

\* C24: check_magnetic_field(fx, fy, fz) returns False iff the magnitude of
\* the vector is strictly greater than max_magnetic_field; a magnitude equal
\* to the limit is accepted, for default and custom limits.
C24_FieldCheckRejectsOnlyAboveLimit ==
    Checked("check_magnetic_field") =>
        /\ verdict \in {"True", "False"}
        /\ verdict = "False" <=>
                MagnitudeAbove(call.args[1], call.args[2], call.args[3],
                               call.limits.max_magnetic_field)

\* the vector (5.4, -7.2, 0) T of magnitude 9 T is accepted under the
\* default limit of 9 T
C24_Witness ==
    /\ Checked("check_magnetic_field")
    /\ call.args = <<54, -72, 0>>
    /\ call.limits = DEFAULT_LIMITS
    /\ verdict = "True"

\* the limit a scalar check compares with
LimitOf(fn) ==
    CASE fn = "check_current" -> call.limits.max_current
      [] fn = "check_voltage" -> call.limits.max_voltage
      [] fn = "check_field_ramp_rate" -> call.limits.max_field_ramp_rate
      [] fn = "check_temperature_ramp_rate" -> call.limits.max_temperature_ramp_rate

\* |v| <= limit, without abs
WithinMagnitude(v, limit) == v <= limit /\ -v <= limit

\* C25: check_current and check_voltage return True iff abs(value) is at
\* most the configured limit, whatever the sign; the limit itself passes.
C25_CurrentVoltageCheckByMagnitude ==
    \A fn \in {"check_current", "check_voltage"} :
        Checked(fn) =>
            /\ verdict \in {"True", "False"}
            /\ verdict = "True" <=> WithinMagnitude(call.args[1], LimitOf(fn))

\* a current of -0.2 A is turned away under the default limit of 0.1 A
C25_Witness ==
    /\ Checked("check_current")
    /\ call.args = <<-2>>
    /\ call.limits = DEFAULT_LIMITS
    /\ verdict = "False"

\* C26: check_temperature returns True iff min_temperature <= temperature
\* <= max_temperature, both bounds included; False above and below.
C26_TemperatureCheckInclusive ==
    Checked("check_temperature") =>
        /\ verdict \in {"True", "False"}
        /\ verdict = "True" <=>
                /\ call.limits.min_temperature <= call.args[1]
                /\ call.args[1] <= call.limits.max_temperature

\* a temperature below the default minimum of 0.01 K is turned away
C26_Witness ==
    /\ Checked("check_temperature")
    /\ call.args = <<0>>
    /\ call.limits = DEFAULT_LIMITS
    /\ verdict = "False"

\* C27: check_field_ramp_rate and check_temperature_ramp_rate return True
\* iff the absolute value of the rate is at most the limit: a negative rate
\* whose magnitude is beyond the limit is turned away.
C27_RampRateCheckByMagnitude ==
    \A fn \in {"check_field_ramp_rate", "check_temperature_ramp_rate"} :
        Checked(fn) =>
            (verdict = "True" <=> WithinMagnitude(call.args[1], LimitOf(fn)))

\* the scalar check of an endpoint of the range of the given kind
EndpointPasses(kind, v) ==
    CASE kind = "current" -> SafetyChecks_check_current(call.limits, v)
      [] kind = "voltage" -> SafetyChecks_check_voltage(call.limits, v)
      [] kind = "field" -> SafetyChecks_check_magnetic_field(call.limits, v, 0, 0)
      [] kind = "temperature" -> SafetyChecks_check_temperature(call.limits, v)

RangeOf(d, kind) ==
    CASE kind = "current" -> d.current_range
      [] kind = "voltage" -> d.voltage_range
      [] kind = "field" -> d.field_range
      [] kind = "temperature" -> d.temperature_range

\* C28: check_sweep_parameters returns True iff both endpoints of every
\* range present in the descriptor pass their scalar check; a failing
\* endpoint gives the return value False, never an exception.
C28_SweepCheckCoversBothEndpoints ==
    Checked("check_sweep_parameters") =>
        /\ verdict \in {"True", "False"}
        /\ verdict = "True" <=>
                \A kind \in {"current", "voltage", "field", "temperature"} :
                    LET range == RangeOf(call.args[1], kind)
                    IN  range # <<>> =>
                            \A k \in 1..2 : EndpointPasses(kind, range[k])

\* a descriptor whose only fault is the upper end of its temperature range
C28_Witness ==
    /\ Checked("check_sweep_parameters")
    /\ call.args[1] = [current_range |-> <<-1, 1>>, voltage_range |-> <<>>,
                       field_range |-> <<-50, 50>>,
                       temperature_range |-> <<2, 40001>>]
    /\ call.limits = DEFAULT_LIMITS
    /\ verdict = "False"

(***************************************************************************)
(* Properties of the order of the writes of a sweep                        *)
(***************************************************************************)
\* positions in the log of the sweep of the operations of kind t on channel
\* ch; answered ones only when ok is asked for
Writes(t, ch, okOnly) ==
    {i \in 1..Len(SweepLog) :
        /\ SweepLog[i].t = t
        /\ SweepLog[i].dev = ch
        /\ okOnly => SweepLog[i].ok}

\* C29: in every run_sweep call the output is enabled once, before the
\* first setpoint write; nothing that can abort the run lies between the
\* enabling and the arming of the cleanup; the output is disabled once,
\* after the last setpoint write and after the setpoint was set to zero.
C29_EnableCleanupDisableOrder ==
    Exited =>
        \A ch \in SourceChannels :
            LET enables == Writes("enable", ch, TRUE)
                setpoints == Writes("set", ch, FALSE)
                zeroes == Writes("zero", ch, TRUE)
                disables == Writes("disable", ch, TRUE)
            IN  /\ Cardinality(enables) <= 1
                /\ setpoints # {} =>
                        \E e \in enables : \A s \in setpoints : e < s
                /\ \A e \in enables :
                        \A i \in (e + 1)..Len(SweepLog) :
                            SweepLog[i].ph # "prologue"
                /\ enables # {} =>
                        /\ Cardinality(disables) = 1
                        /\ \A d \in disables :
                                /\ \A s \in setpoints : s < d
                                /\ \E z \in zeroes : z < d

(***************************************************************************)
(* Properties of the result of a completed sweep                           *)
(***************************************************************************)
\* answered operations at sweep point k that are the ip-th of the loop body
DoneAt(k, op) ==
    {i \in 1..Len(SweepLog) :
        /\ SweepLog[i].ph = "body"
        /\ SweepLog[i].pt = k
        /\ SweepLog[i].t = op.t
        /\ SweepLog[i].dev = op.dev
        /\ SweepLog[i].ok}

TimesInBody(op) ==
    Cardinality({j \in 1..Len(BodyOps(EngineCall)) : BodyOps(EngineCall)[j] = op})

\* C30: a sweep that completes normally returns one sample per element of
\* the generated sequence, in order (2 x numPoints when bidirectional, the
\* turnaround point twice), sample i holding sequence[i]: every generated
\* point is written to the instrument and measured exactly once.
C30_OneSamplePerGeneratedPoint ==
    phase = "returned" =>
        LET p == EngineCall.params
            n == p.numPoints
            total == IF p.bidirectional THEN 2 * n ELSE n
            indep == results[IndependentChannel(EngineCall.cls)]
        IN  /\ Len(Points) = total
            /\ \A ch \in DOMAIN results : Len(results[ch]) = total
            /\ \A i \in 1..total : indep[i] = Num(Points[i])
            /\ p.bidirectional => indep[n] = indep[n + 1]
            /\ \A k \in 1..total :
                \A j \in 1..Len(BodyOps(EngineCall)) :
                    LET op == BodyOps(EngineCall)[j]
                    IN  /\ Cardinality(DoneAt(k, op)) = TimesInBody(op)
                        /\ op.t = "set" => TimesInBody(op) = 1
            /\ \A i \in Writes("set", BodyOps(EngineCall)[1].dev, TRUE) :
                    SweepLog[i].val = Points[SweepLog[i].pt]

\* a bidirectional sweep over two distinct points has returned four samples
C30_Witness ==
    /\ phase = "returned"
    /\ EngineCall.params.bidirectional
    /\ EngineCall.params.numPoints = 2
    /\ Len(results[IndependentChannel(EngineCall.cls)]) = 4
    /\ results[IndependentChannel(EngineCall.cls)][1] # results[IndependentChannel(EngineCall.cls)][2]

(***************************************************************************)
(* Properties of the nested sweeps: order of the outer points              *)
(***************************************************************************)
\* positions in the log of the orchestrator events of kinds ts at outer point o
OuterIdx(o, ts) ==
    {i \in 1..Len(log) : log[i].ph = "outer" /\ log[i].o = o /\ log[i].t \in ts}

\* positions in the log of the operations of the inner sweep of outer point o
InnerIdx(o) ==
    {i \in 1..Len(log) : log[i].o = o /\ log[i].ph \in {"prologue", "body", "cleanup"}}

CommandKinds == {"field_x", "field_y", "ramp", "setpoint"}
WaitKinds == {"cset", "poll"}

\* place of a logged operation in the run: outer point first, then command,
\* settling wait, fixed delay, inner sweep
StageOf(e) ==
    4 * e.o + (IF e.ph # "outer" THEN 3
               ELSE IF e.t = "delay" THEN 2
               ELSE IF e.t \in WaitKinds THEN 1
               ELSE 0)

\* the orchestrator is changing the outer quantity or waiting for it
ChangingOuter == opc \in {"validate", "command", "settle", "delay"}

SweptPoints ==
    {o \in OuterPoints :
        /\ ~(o = oidx /\ opc = "inner")
        /\ ~InnerFailedAt(o)
        /\ \A j \in 1..Len(CleanupOps(EngineCall)) :
            \E i \in InnerIdx(o) :
                /\ log[i].ph = "cleanup"
                /\ log[i].t = CleanupOps(EngineCall)[j].t
                /\ log[i].dev = CleanupOps(EngineCall)[j].dev}

\* C32: in the result of a nested sweep every per-outer-point list (the outer
\* setpoint components and the arrays of the inner results) has as many
\* entries as outer points have been completed, the completed points are the
\* first ones of the input list with none skipped, and entry i of every list
\* is that of input point i: its setpoint components are those of input point
\* i and its arrays are the result of the inner sweep run at point i. The
\* result changes only when an inner sweep has ended, so it is examined
\* between the inner sweeps and at the exit of the orchestrator.
C32_OneEntryPerOuterPointInOrder ==
    (call.cls \in NestedClasses /\ InnerEngine(call.cls) \in Engines /\ opc # "inner") =>
        LET n == Cardinality(SweptPoints)
        IN  /\ SweptPoints = 1..n
            /\ \A k \in PointKeys(call.cls) \cup ArrayKeys(call.cls) :
                 Len(AllDataList(k)) = n
            /\ \A i \in 1..Len(allData) :
                /\ allData[i].o = i
                /\ ArrayKeys(call.cls) \subseteq DOMAIN allData[i].data
                /\ call.cls \in FieldClasses =>
                    /\ AllDataList("field_x")[i] = call.outer[i][1]
                    /\ AllDataList("field_y")[i] = call.outer[i][2]
                /\ call.cls \notin FieldClasses =>
                    AllDataList("temperatures")[i] = call.outer[i]
                /\ \A k \in ArrayKeys(call.cls) :
                    Len(AllDataList(k)[i]) = Len(Points)
                /\ \A j \in 1..Len(Points) :
                    AllDataList(IndependentChannel(EngineCall.cls))[i][j] = Num(Points[j])

\* a field sweep over two different field points has returned both entries
C32_Witness ==
    /\ call.cls \in {"IVFieldSweep", "STSMeasurement"}
    /\ opc = "returned"
    /\ Len(call.outer) = 2
    /\ call.outer[1] # call.outer[2]
    /\ Len(allData) = 2


(***************************************************************************)
(* Properties of the monitor: instrument writes, termination, start        *)
(***************************************************************************)
\* a step taken by a worker thread (a step of monitor_loop)
WorkerStep ==
    /\ mpc' = mpc
    /\ Len(threads') = Len(threads)
    /\ \E w \in 1..Len(threads) : threads'[w].pc # threads[w].pc

\* C33: the monitor worker only reads from the instruments: no step of the
\* monitor loop changes a setpoint or an output state of any instrument,
\* whichever instruments TransportMeasurement has chosen (lock-in, current
\* source with nanovoltmeter, SMU).
C33_WorkerOnlyReads ==
    [][WorkerStep => (level' = level /\ output' = output)]_vars


\* stop_monitoring calls so far that found the monitoring flag set
StopsOnRunning ==
    Cardinality({i \in 1..Len(mhist) :
        mhist[i].e = "call" /\ mhist[i].op = "stop_monitoring" /\ mhist[i].flag})

\* the step is a worker passing the test of the flag into a new iteration
EntersIteration(w) == threads[w].pc = "check" /\ threads'[w].pc = "measure"

\* no stop_monitoring call has ended by raising
StopNeverRaises ==
    \A r \in 1..Len(mhist) : mhist[r].op = "stop_monitoring" => mhist[r].e # "raise"

\* C34: stop_monitoring always returns: after the join, finished or timed
\* out, it completes the instrument cleanup and the draining of the queue,
\* so no stop_monitoring call ends by raising and the queue is empty when it
\* returns; and once stop_monitoring has cleared the flag of a session, the
\* worker of that session enters no new iteration (it only finishes the one
\* under way) before it exits.
C34_StopReturnsAndWorkerExits ==
    /\ []StopNeverRaises
    /\ [][ /\ StopReturns => data_queue' = <<>>
           /\ \A w \in 1..Len(threads) :
                (Len(threads') = Len(threads) /\ EntersIteration(w)) =>
                    StopsOnRunning < threads[w].session ]_vars


\* C35: whenever the monitoring flag is set and no call on the monitor is
\* under way (the last start_monitoring has returned or raised), a worker
\* thread has been started for the session the flag belongs to; so a
\* start_monitoring that failed while configuring the instruments leaves the
\* flag cleared.
C35_FlagSetImpliesWorkerStarted ==
    (mpc.at = "idle" /\ monitoring) =>
        \E w \in 1..Len(threads) : threads[w].session = Sessions


(***************************************************************************)
(* Properties of the Hall sweep                                            *)
(***************************************************************************)
\* the magnet parameter that carries the field of a Hall sweep along axis
HallAxisParameter(axis) == IF axis = "y" THEN "field_y" ELSE "field_x"

\* C36: in run_hall_sweep, for every field point stored and every
\* field_axis setting (x, y, z), the value recorded in magnetic_field is the
\* signed field that was written to the magnet for that point, negative
\* field points included.
C36_RecordedFieldIsCommandedField ==
    call.cls = "HallMeasurement" =>
        \A i \in 1..Len(allData) :
            \E j \in OuterIdx(allData[i].o, {HallAxisParameter(call.axis)}) :
                log[j].ok /\ log[j].val = allData[i].point


(***************************************************************************)
(* Properties of the station methods                                       *)
(***************************************************************************)
\* set_temperature has passed its setpoint statement: it is waiting for
\* stability, has returned, or was ended by an error of the wait
PastSetpointStatement ==
    \/ opc \in {"command", "settle", "returned"}
    \/ opc = "raised" /\ oerr.kind # "RuntimeError"

\* instrument operations logged so far (attribute bindings are none)
HardwareEvents == {i \in 1..Len(log) : log[i].ph # "attribute"}

\* C37: BlueforsStation.set_temperature writes the target temperature to the
\* setpoint of the selected control loop before it starts waiting for
\* stability, and also when wait_for_stability is False; without a
\* temperature controller it raises RuntimeError before any hardware
\* interaction.
C37_SetpointWrittenBeforeWait ==
    call.cls = "set_temperature" =>
        /\ "temperature_controller" \notin call.station =>
            /\ HardwareEvents = {}
            /\ opc \in {"station", "raised"}
            /\ opc = "raised" => oerr.kind = "RuntimeError"
        /\ ("temperature_controller" \in call.station /\ PastSetpointStatement) =>
            /\ tctl[call.loop] = call.outer[1]
            /\ \E i \in HardwareEvents :
                /\ log[i].t = "setpoint" /\ log[i].ok /\ log[i].val = call.outer[1]
                /\ \A j \in HardwareEvents : i <= j

\* shutdown commands of emergency_stop issued so far, failed ones included
IssuedShutdowns == {i \in 1..Len(log) : log[i].ph = "station"}

\* C38: BlueforsStation.emergency_stop issues the shutdown commands of every
\* configured instrument (magnet pause; current source output OFF and
\* current 0; both SMU outputs off and voltages 0; lock-in amplitude 0), also
\* when the shutdown command of an earlier instrument raises.
C38_EveryShutdownCommandIssued ==
    (call.cls = "emergency_stop" /\ opc \in {"returned", "raised"}) =>
        \A k \in 1..Len(ShutdownOps(call.station)) :
            \E i \in IssuedShutdowns :
                /\ log[i].t = ShutdownOps(call.station)[k].t
                /\ log[i].dev = ShutdownOps(call.station)[k].dev


(***************************************************************************)
(* Properties of validate_measurement_sequence                             *)
(***************************************************************************)
\* positions of the returned warnings of one kind about measurement i
WarningsAbout(kind, i) ==
    {k \in 1..Len(verdict.warnings) :
        verdict.warnings[k].kind = kind /\ verdict.warnings[k].pos = i}

\* measurement i of the sequence passes check_sweep_parameters
MeasurementPasses(i) ==
    SafetyChecks_check_sweep_parameters(call.limits, call.args[1][i])

\* the change of a setpoint from measurement i - 1 to measurement i exceeds limit
LargeChange(key, i, limit) ==
    LET now == IF key = "field" THEN call.args[1][i].field_setpoint
               ELSE call.args[1][i].temperature_setpoint
        prev == IF key = "field" THEN call.args[1][i - 1].field_setpoint
                ELSE call.args[1][i - 1].temperature_setpoint
    IN  now # <<>> /\ prev # <<>> /\ Abs(now[1] - prev[1]) > limit

\* C39: validate_measurement_sequence returns is_safe = True iff every
\* measurement of the sequence passes check_sweep_parameters; a field change
\* of more than 1 T or a temperature change of more than 10 K between
\* consecutive measurements adds one warning and leaves is_safe as it is;
\* each unsafe measurement adds exactly one warning naming its position, and
\* there are no other warnings.
C39_SafeIffEveryMeasurementPasses ==
    (call.cls = "SafetyChecks" /\ call.fn = "validate_measurement_sequence"
        /\ opc = "returned") =>
        LET n == Len(call.args[1])
        IN  /\ verdict.is_safe = (\A i \in 1..n : MeasurementPasses(i))
            /\ \A i \in 1..n :
                /\ Cardinality(WarningsAbout("unsafe", i))
                        = IF MeasurementPasses(i) THEN 0 ELSE 1
                /\ Cardinality(WarningsAbout("field", i))
                        = IF i > 1 /\ LargeChange("field", i, large_field_change)
                          THEN 1 ELSE 0
                /\ Cardinality(WarningsAbout("temperature", i))
                        = IF i > 1 /\ LargeChange("temperature", i, large_temperature_change)
                          THEN 1 ELSE 0
            /\ \A k \in 1..Len(verdict.warnings) :
                /\ verdict.warnings[k].pos \in 1..n
                /\ verdict.warnings[k].kind \in {"unsafe", "field", "temperature"}

\* a sequence of safe measurements with a large field change has been
\* validated: it is reported safe, with the warning about the change
C39_Witness ==
    /\ call.cls = "SafetyChecks"
    /\ call.fn = "validate_measurement_sequence"
    /\ opc = "returned"
    /\ verdict.is_safe
    /\ WarningsAbout("field", 2) # {}


====
